---------------------------- MODULE Spec2Model ----------------------------
(***************************************************************************)
(* VortexCut rust-engine: a model of the preview/playback core.            *)
(*                                                                         *)
(*   FrameQueue      rendering/frame_queue.rs                              *)
(*   FrameCache      rendering/renderer.rs  (struct FrameCache)            *)
(*   Renderer        rendering/renderer.rs  (render_frame and helpers)     *)
(*   PlaybackEngine  rendering/playback_engine.rs                          *)
(*   AudioPlayback   audio/playback.rs                                     *)
(*   Decoder         ffmpeg/decoder.rs                                     *)
(*   video tracks    timeline/track.rs                                     *)
(*                                                                         *)
(* Every subsystem has its own specification (SpecFQ, SpecCache,           *)
(* SpecRender, SpecCompose, SpecPE, SpecAudio, SpecRing, SpecDecoder) over *)
(* the one set of variables; a specification leaves the variables of the   *)
(* other subsystems parked at their constructed values.                    *)
(*                                                                         *)
(* Option<T> is modelled as a sequence of length at most one:              *)
(* None = << >>, Some(x) = <<x>>.                                          *)
(***************************************************************************)
EXTENDS Integers, Sequences, FiniteSets, TLC

VARIABLES
    \* ---- FrameQueue (shared by the FrameQueue and PlaybackEngine specs)
    frame_queue,          \* FrameQueue.buffer, oldest first
    fq_pushed,            \* number of frames the queue harness has pushed
    fq_last,              \* the last FrameQueue operation and what it returned
    \* ---- FrameCache
    cache,                \* FrameCache: entries, max_entries, max_bytes, current_bytes
    cache_last,           \* the last FrameCache operation and what it returned
    use_order,            \* keys in order of last use (put or get hit), oldest first
    byte_evicted,         \* some put since new()/clear() evicted because of max_bytes
    \* ---- Renderer
    renderer,             \* the Renderer's fields
    tl_held,              \* the Timeline mutex is held by another thread
    r_last,               \* the last Renderer operation, its inputs and its result
    timeline,             \* Timeline.video_tracks, as the Renderer reads them
    \* ---- PlaybackEngine
    fill_thread,          \* PlaybackEngine.fill_thread: None or the session's handle
    cancelled,            \* PlaybackEngine.cancelled
    start_time_ms,        \* PlaybackEngine.start_time_ms
    current_prefetch_ms,  \* PlaybackEngine.current_prefetch_ms
    last_requested_ms,    \* PlaybackEngine.last_requested_ms
    threads,              \* the fill threads ever spawned, by session number
    caller,               \* the thread inside start()/stop()/try_get_frame()
    pe_last,              \* what the step just taken did (a render, an API call)
    world,                \* what the fill loop's renders meet: the clip and the faults left
    \* ---- AudioPlayback
    ring,                 \* AudioRingBuffer.samples as the range [head, tail)
    buf_lock,             \* holder of the ring-buffer mutex
    is_playing,           \* AudioPlayback.is_playing
    a_cancelled,          \* AudioPlayback.cancelled
    prefill_done,         \* prefill_done flag of start()
    afill,                \* the audio fill thread: position and locals
    acb,                  \* the cpal output callback: position and output length
    acaller,              \* the thread inside AudioPlayback::start()/stop()
    a_waited,             \* wait_start.elapsed() of start(), in ms of sleep
    a_last,               \* what the step just taken did, when it ended a callback
    \* ---- Decoder
    decoder,              \* one Decoder: its fields and the demuxer's position
    dec_last,             \* the last Decoder call, the decoder before it and its result
    dec_faults,           \* failures the decoder's input may still inject
    dec_eof,              \* the last scan that ran into the end, while it stands
    dec_produced,         \* some decode_frame call has returned a frame
    \* ---- ExportJob
    xjob,                 \* one export job: its flags, its thread and its encoder
    \* ---- AudioDecoder
    adec,                 \* one AudioDecoder, its caller's sequence and the last call
    \* ---- mutex poison
    mx,                   \* the poisoned mutexes and the last operation on them
    \* ---- clip effects
    fx                    \* the effects, the frame cache and the mutex of one Renderer

fqVars    == <<frame_queue, fq_pushed, fq_last>>
cacheVars == <<cache, cache_last, use_order, byte_evicted>>
rVars     == <<renderer, tl_held, r_last, timeline>>
peVars    == <<fill_thread, cancelled, start_time_ms, current_prefetch_ms,
               last_requested_ms, threads, caller, pe_last, world>>
aVars     == <<ring, buf_lock, is_playing, a_cancelled, prefill_done, afill, acb,
               acaller, a_waited, a_last>>
decVars   == <<decoder, dec_last, dec_faults, dec_eof, dec_produced>>
moreVars  == <<xjob, adec, mx, fx>>
vars      == <<fqVars, cacheVars, rVars, peVars, aVars, decVars, moreVars>>

None     == << >>
Some(x)  == <<x>>
IsSome(o) == Len(o) = 1
Unwrap(o) == o[1]

Abs(x) == IF x < 0 THEN -x ELSE x
Least(S) == CHOOSE x \in S : \A y \in S : x <= y

(***************************************************************************)
(* RenderedFrame.  data is represented by what the code reads of it: `a`   *)
(* is data[3], the alpha byte of the first pixel (every preview frame is   *)
(* 960x540 RGBA, so data.len() >= 4), and `kind` says how the bytes were   *)
(* made.  `by` is not a field of the struct: it records which fill-loop    *)
(* session pushed the frame (0: none).                                     *)
(***************************************************************************)
Frame(ts, alpha, k) == [timestamp_ms |-> ts, a |-> alpha, kind |-> k, by |-> 0]

\* black_frame / black_frame_with_size: all bytes zero, so data[3] = 0
black_frame(ts) == Frame(ts, 0, "black")

\* black_frame_yuv: the Y plane is zero, so data[3] = 0
black_frame_yuv(ts) == Frame(ts, 0, "black_yuv")

(***************************************************************************)
(*                              FrameQueue                                 *)
(***************************************************************************)
QUEUE_CAPACITY == 16

RECURSIVE EvictWhileFull(_)
EvictWhileFull(q) ==
    IF Len(q) >= QUEUE_CAPACITY THEN EvictWhileFull(Tail(q)) ELSE q

\* a push that forgets to evict
PushNoEvict(q, f) == Append(q, f)

\* FrameQueue::push
Push(q, f) == Append(EvictWhileFull(q), f)

\* FrameQueue::pop: the queue left behind, and the frame returned
PopRest(q) == IF Len(q) = 0 THEN q ELSE Tail(q)
PopRet(q)  == IF Len(q) = 0 THEN None ELSE Some(Head(q))

\* the loop of peek_nearest over buffer[i..]: best is None or Some(<<diff, idx>>)
RECURSIVE PeekScan(_, _, _, _, _)
PeekScan(q, i, ts, tol, best) ==
    IF i > Len(q) THEN best
    ELSE LET diff == Abs(q[i].timestamp_ms - ts)
             take == diff <= tol /\ (IF IsSome(best) THEN diff < Unwrap(best)[1] ELSE TRUE)
         IN  PeekScan(q, i + 1, ts, tol, IF take THEN Some(<<diff, i>>) ELSE best)

\* a peek that returns the first frame within the tolerance, not the nearest
PeekNearestFirst(q, ts, tol) ==
    LET hits == {i \in 1..Len(q) : Abs(q[i].timestamp_ms - ts) <= tol}
    IN  IF hits = {} THEN None
        ELSE Some(q[CHOOSE i \in hits : \A j \in hits : i <= j])

\* FrameQueue::peek_nearest
PeekNearest(q, ts, tol) ==
    LET best == PeekScan(q, 1, ts, tol, None)
    IN  IF IsSome(best) THEN Some(q[Unwrap(best)[2]]) ELSE None


(***************************************************************************)
(* The FrameQueue on its own: push, pop, clear and peek_nearest called in  *)
(* any order.  The n-th frame pushed is the n-th frame of a 30 fps stream  *)
(* (timestamp 33 * n), so that frames are told apart and their order in    *)
(* the buffer can be observed.                                             *)
(***************************************************************************)
MaxPushes == 18

FRAME_STEP_MS == 33

PeekTimes == {0, 16, 17, 50, 83, 84, 300, 450, 600}
PeekTols  == {0, 16, 50}

FQNone == [op |-> "new", ts |-> 0, tol |-> 0, ret |-> None, was_full |-> FALSE]

\* FrameQueue::new
FQInit ==
    /\ frame_queue = << >>
    /\ fq_pushed = 0
    /\ fq_last = FQNone

FQPush ==
    /\ fq_pushed < MaxPushes
    /\ LET f == Frame(FRAME_STEP_MS * fq_pushed, 255, "decoded")
       IN  /\ frame_queue' = Push(frame_queue, f)
           /\ fq_last' = [op |-> "push", ts |-> f.timestamp_ms, tol |-> 0, ret |-> None,
                          was_full |-> Len(frame_queue) >= QUEUE_CAPACITY]
    /\ fq_pushed' = fq_pushed + 1

FQPop ==
    /\ frame_queue' = PopRest(frame_queue)
    /\ fq_last' = [op |-> "pop", ts |-> 0, tol |-> 0, ret |-> PopRet(frame_queue),
                   was_full |-> Len(frame_queue) >= QUEUE_CAPACITY]
    /\ UNCHANGED fq_pushed

\* FrameQueue::clear
FQClear ==
    /\ frame_queue' = << >>
    /\ fq_last' = [op |-> "clear", ts |-> 0, tol |-> 0, ret |-> None,
                   was_full |-> Len(frame_queue) >= QUEUE_CAPACITY]
    /\ UNCHANGED fq_pushed

FQPeek ==
    \E ts \in PeekTimes, tol \in PeekTols :
        /\ fq_last' = [op |-> "peek", ts |-> ts, tol |-> tol,
                       ret |-> PeekNearest(frame_queue, ts, tol),
                       was_full |-> Len(frame_queue) >= QUEUE_CAPACITY]
        /\ UNCHANGED <<frame_queue, fq_pushed>>

(***************************************************************************)
(*                              FrameCache                                 *)
(*                                                                         *)
(* An entry is [file_path, source_time_ms, frame, bytes] with bytes =      *)
(* frame.data.len().  hit_count and miss_count are diagnostics that no     *)
(* operation reads back; they are left out.                                *)
(***************************************************************************)
CacheEntry(path, src_ms, frame, nbytes) ==
    [file_path |-> path, source_time_ms |-> src_ms, frame |-> frame, bytes |-> nbytes]

\* FrameCache::new
FrameCacheNew(max_entries, max_bytes) ==
    [entries |-> << >>, max_entries |-> max_entries, max_bytes |-> max_bytes,
     current_bytes |-> 0]

\* entries.iter().position(|e| e.file_path == file_path && e.source_time_ms == src): 0 if absent
CachePosition(entries, path, src_ms) ==
    LET hits == {i \in 1..Len(entries) :
                    entries[i].file_path = path /\ entries[i].source_time_ms = src_ms}
    IN  IF hits = {} THEN 0 ELSE CHOOSE i \in hits : \A j \in hits : i <= j

\* VecDeque::remove(i) (1-based here)
RemoveAt(seq, i) == SubSeq(seq, 1, i - 1) \o SubSeq(seq, i + 1, Len(seq))

\* a get that returns the hit without moving it to the most-recent end
CacheGetNoTouch(c, path, src_ms) ==
    LET i == CachePosition(c.entries, path, src_ms)
    IN  IF i = 0 THEN [cache |-> c, ret |-> None]
        ELSE [cache |-> c, ret |-> Some(c.entries[i].frame)]

\* FrameCache::get: the cache afterwards and the frame returned
CacheGet(c, path, src_ms) ==
    LET i == CachePosition(c.entries, path, src_ms)
    IN  IF i = 0 THEN [cache |-> c, ret |-> None]
        ELSE LET moved == IF i < Len(c.entries)
                          THEN Append(RemoveAt(c.entries, i), c.entries[i])
                          ELSE c.entries
             IN  [cache |-> [c EXCEPT !.entries = moved],
                  ret |-> Some(moved[Len(moved)].frame)]

\* the eviction loop of put: pop_front while a cap is exceeded and entries remain.
\* st = [entries, current_bytes, evicted (keys, in order), by_bytes]
RECURSIVE CacheEvict(_, _, _, _)
CacheEvict(st, max_entries, max_bytes, frame_bytes) ==
    LET over_n == Len(st.entries) >= max_entries
        over_b == st.current_bytes + frame_bytes > max_bytes
    IN  IF (over_n \/ over_b) /\ st.entries # << >>
        THEN CacheEvict(
                [entries |-> Tail(st.entries),
                 current_bytes |-> st.current_bytes - Head(st.entries).bytes,
                 evicted |-> Append(st.evicted, <<Head(st.entries).file_path,
                                                  Head(st.entries).source_time_ms>>),
                 by_bytes |-> st.by_bytes \/ ~over_n],
                max_entries, max_bytes, frame_bytes)
        ELSE st

\* FrameCache::put: the cache afterwards, and what the eviction loop removed
CachePut(c, path, src_ms, frame, frame_bytes) ==
    LET i  == CachePosition(c.entries, path, src_ms)
        e0 == IF i = 0 THEN c.entries ELSE RemoveAt(c.entries, i)
        b0 == IF i = 0 THEN c.current_bytes ELSE c.current_bytes - c.entries[i].bytes
        st == CacheEvict([entries |-> e0, current_bytes |-> b0, evicted |-> << >>,
                          by_bytes |-> FALSE],
                         c.max_entries, c.max_bytes, frame_bytes)
    IN  [cache |-> [c EXCEPT !.entries = Append(st.entries,
                                                CacheEntry(path, src_ms, frame, frame_bytes)),
                             !.current_bytes = st.current_bytes + frame_bytes],
         evicted |-> st.evicted,
         by_bytes |-> st.by_bytes]

\* FrameCache::clear
CacheClear(c) == [c EXCEPT !.entries = << >>, !.current_bytes = 0]

\* FrameCache::stats
CacheStats(c) == <<Len(c.entries), c.current_bytes>>

(***************************************************************************)
(* The FrameCache on its own: put, get and clear in any order on a cache   *)
(* of CacheN entries, as test_frame_cache_lru builds one, with a byte cap  *)
(* that never binds (CacheBigBytes) or one that does (CacheSmallBytes).    *)
(* use_order is the reference order of last use: a key moves to its end    *)
(* whenever it is put or hit.                                              *)
(***************************************************************************)
CacheN == 3
CacheBigBytes == 100
CacheSmallBytes == 5

\* CacheN + 1 distinct keys (path, source time), over two files, and one key of
\* a file whose frames are larger than the small byte cap
CacheKeys  == {<<"a.mp4", FRAME_STEP_MS * i>> : i \in 0..(CacheN - 1)}
                \cup {<<"b.mp4", 0>>, <<"big.mp4", 0>>}
\* bytes of one decoded frame of a file
FrameSize(k) == IF k[1] = "a.mp4" THEN 2
                ELSE IF k[1] = "b.mp4" THEN 3
                ELSE CacheSmallBytes + 1

CacheLastNone == [op |-> "new", key |-> <<"", 0>>, hit |-> FALSE, evicted |-> << >>,
                  prev_hit |-> None]

\* seq without the element k
RECURSIVE Without(_, _)
Without(seq, k) ==
    IF seq = << >> THEN << >>
    ELSE IF Head(seq) = k THEN Without(Tail(seq), k)
    ELSE <<Head(seq)>> \o Without(Tail(seq), k)

Touch(order, k) == Append(Without(order, k), k)

CacheInit ==
    /\ \E mb \in {CacheBigBytes, CacheSmallBytes} : cache = FrameCacheNew(CacheN, mb)
    /\ cache_last = CacheLastNone
    /\ use_order = << >>
    /\ byte_evicted = FALSE

CachePutStep ==
    \E k \in CacheKeys :
        LET r == CachePut(cache, k[1], k[2], Frame(k[2], 255, "decoded"), FrameSize(k))
        IN  /\ cache' = r.cache
            /\ cache_last' = [op |-> "put", key |-> k, hit |-> FALSE, evicted |-> r.evicted,
                              prev_hit |-> cache_last.prev_hit]
            /\ use_order' = Touch(use_order, k)
            /\ byte_evicted' = (byte_evicted \/ r.by_bytes)

CacheGetStep ==
    \E k \in CacheKeys :
        LET r == CacheGet(cache, k[1], k[2])
        IN  /\ cache' = r.cache
            /\ cache_last' = [op |-> "get", key |-> k, hit |-> IsSome(r.ret),
                              evicted |-> << >>,
                              prev_hit |-> IF IsSome(r.ret) THEN Some(k)
                                           ELSE cache_last.prev_hit]
            /\ use_order' = IF IsSome(r.ret) THEN Touch(use_order, k) ELSE use_order
            /\ UNCHANGED byte_evicted

CacheClearStep ==
    /\ cache' = CacheClear(cache)
    /\ cache_last' = [CacheLastNone EXCEPT !.op = "clear"]
    /\ use_order' = << >>
    /\ byte_evicted' = FALSE

(***************************************************************************)
(*                               Renderer                                  *)
(*                                                                         *)
(* What the Timeline holds at the requested time, and what the decoder of  *)
(* each clip answers, are inputs of render_frame:                          *)
(*   scene = [clips: the (clip, source_time_ms) collected under the lock,  *)
(*                   at most one,                                          *)
(*            transitions: the TransitionInfo collected, first one used]   *)
(*   dec   = what Decoder::open and Decoder::decode_frame answer for one   *)
(*           clip: [open_ok, first, state1, reopen_ok, second, state2, a]  *)
(* A decoder in the cache is [state, forward_threshold].  The diag_*       *)
(* counters only feed the log; they are left out.                          *)
(***************************************************************************)
PREVIEW_CACHE_ENTRIES == 60
PREVIEW_CACHE_BYTES == 209715200
EXPORT_CACHE_ENTRIES == 5
EXPORT_CACHE_BYTES == 52428800
PREVIEW_WIDTH == 960
PREVIEW_HEIGHT == 540
ExportWidth == 1920
ExportHeight == 1080
PREVIEW_FRAME_BYTES == PREVIEW_WIDTH * PREVIEW_HEIGHT * 4
EXPORT_RGBA_BYTES == ExportWidth * ExportHeight * 4
EXPORT_FRAME_BYTES == ExportWidth * ExportHeight + 2 * ((ExportWidth \div 2) * (ExportHeight \div 2))
PLAYBACK_THRESHOLD_MS == 5000
SCRUB_THRESHOLD_MS == 100
ADAPTIVE_SKIP_MS == 28

\* the decoder cache as a function on a set of paths
NoDecoders == [p \in {} |-> 0]
MapPut(m, k, v) == [x \in (DOMAIN m) \cup {k} |-> IF x = k THEN v ELSE m[x]]
MapRemove(m, k) == [x \in (DOMAIN m) \ {k} |-> m[x]]

\* Renderer::new
RendererNew ==
    [decoder_cache |-> NoDecoders,  \* a function from the cached paths to decoders
     frame_cache |-> FrameCacheNew(PREVIEW_CACHE_ENTRIES, PREVIEW_CACHE_BYTES),
     last_rendered_frame |-> None,
     playback_mode |-> FALSE,
     export_resolution |-> FALSE,   \* export_resolution.is_some()
     last_render_elapsed_ms |-> 0]

\* Renderer::new_for_export
RendererNewForExport ==
    [decoder_cache |-> NoDecoders,
     frame_cache |-> FrameCacheNew(EXPORT_CACHE_ENTRIES, EXPORT_CACHE_BYTES),
     last_rendered_frame |-> None,
     playback_mode |-> TRUE,
     export_resolution |-> TRUE,
     last_render_elapsed_ms |-> 0]

Threshold(r) == IF r.playback_mode THEN PLAYBACK_THRESHOLD_MS ELSE SCRUB_THRESHOLD_MS

\* a set_playback_mode that stores the flag and leaves the decoders alone
SetPlaybackModeFlagOnly(r, playback) == [r EXCEPT !.playback_mode = playback]

\* Renderer::set_playback_mode
SetPlaybackMode(r, playback) ==
    LET thr == IF playback THEN PLAYBACK_THRESHOLD_MS ELSE SCRUB_THRESHOLD_MS
        set == [p \in DOMAIN r.decoder_cache |->
                    [r.decoder_cache[p] EXCEPT !.forward_threshold = thr]]
        kept == IF playback
                THEN [p \in {q \in DOMAIN set : set[q].state # "Error"} |-> set[p]]
                ELSE set
    IN  [r EXCEPT !.playback_mode = playback, !.decoder_cache = kept]

\* the frame every fallback returns: the last rendered frame, else a black frame
\* (unwrap_or_else of last_rendered_frame.clone())
LastOrBlack(r, ts) ==
    IF IsSome(r.last_rendered_frame) THEN Unwrap(r.last_rendered_frame)
    ELSE IF r.export_resolution THEN black_frame_yuv(ts) ELSE black_frame(ts)

\* the black frame of "no clip at this time"
BlackFor(r, ts) == IF r.export_resolution THEN black_frame_yuv(ts) ELSE black_frame(ts)

FrameBytes(r) == IF r.export_resolution THEN EXPORT_FRAME_BYTES ELSE PREVIEW_FRAME_BYTES

\* a decode_clip_frame that recreates the decoder a second time when the retry
\* fails as well
DecodeClipFrameRetryTwice(r, path, dec) ==
    LET c0 == IF path \in DOMAIN r.decoder_cache /\ r.decoder_cache[path].state = "Error"
              THEN MapRemove(r.decoder_cache, path)
              ELSE r.decoder_cache
        thr == Threshold(r)
        opened == IF path \in DOMAIN c0 THEN 0 ELSE 1
    IN  IF path \notin DOMAIN c0 /\ ~dec.open_ok
        THEN [result |-> "Err", decoder_cache |-> c0, opens |-> 0, calls |-> 0]
        ELSE LET c1 == IF path \in DOMAIN c0 THEN c0
                       ELSE MapPut(c0, path, [state |-> "Ready", forward_threshold |-> thr])
             IN  IF dec.first # "Err"
                 THEN [result |-> dec.first,
                       decoder_cache |-> MapPut(c1, path, [c1[path] EXCEPT !.state = dec.state1]),
                       opens |-> opened, calls |-> 1]
                 ELSE IF ~dec.reopen_ok
                 THEN [result |-> "Err", decoder_cache |-> MapRemove(c1, path),
                       opens |-> opened, calls |-> 1]
                 ELSE [result |-> dec.second,
                       decoder_cache |-> MapPut(c1, path,
                            [state |-> dec.state2, forward_threshold |-> thr]),
                       opens |-> opened + (IF dec.second = "Err" THEN 2 ELSE 1),
                       calls |-> IF dec.second = "Err" THEN 3 ELSE 2]

\* Renderer::decode_clip_frame: [result, decoder_cache, opens, calls]; result is
\* "Frame", "FrameSkipped", "EndOfStream", "EndOfStreamEmpty" or "Err" (the
\* Err(String)); opens: the decoders Decoder::open returned; calls: the calls of
\* decode_frame
DecodeClipFrame(r, path, dec) ==
    LET c0 == IF path \in DOMAIN r.decoder_cache /\ r.decoder_cache[path].state = "Error"
              THEN MapRemove(r.decoder_cache, path)
              ELSE r.decoder_cache
        thr == Threshold(r)
        opened == IF path \in DOMAIN c0 THEN 0 ELSE 1
    IN  IF path \notin DOMAIN c0 /\ ~dec.open_ok
        THEN [result |-> "Err", decoder_cache |-> c0, opens |-> 0, calls |-> 0]
        ELSE LET c1 == IF path \in DOMAIN c0 THEN c0
                       ELSE MapPut(c0, path, [state |-> "Ready", forward_threshold |-> thr])
             IN  IF dec.first # "Err"
                 THEN [result |-> dec.first,
                       decoder_cache |-> MapPut(c1, path, [c1[path] EXCEPT !.state = dec.state1]),
                       opens |-> opened, calls |-> 1]
                 ELSE IF ~dec.reopen_ok
                 THEN [result |-> "Err", decoder_cache |-> MapRemove(c1, path),
                       opens |-> opened, calls |-> 1]
                 ELSE [result |-> dec.second,
                       decoder_cache |-> MapPut(c1, path,
                            [state |-> dec.state2, forward_threshold |-> thr]),
                       opens |-> opened + 1, calls |-> 2]

\* what one decode_clip_frame asked of the decoder of a clip
Decoded(clip, d) ==
    <<[path |-> clip.file_path, source_time_ms |-> clip.src_ms,
       opens |-> d.opens, calls |-> d.calls]>>

\* Renderer::decode_and_render_clip: [frame: Option, r, decoded]
DecodeAndRenderClip(r, clip, ts, dec) ==
    LET hit == CacheGet(r.frame_cache, clip.file_path, clip.src_ms)
    IN  IF IsSome(hit.ret)
        THEN [frame |-> hit.ret, r |-> [r EXCEPT !.frame_cache = hit.cache],
              decoded |-> << >>]
        ELSE LET d  == DecodeClipFrame(r, clip.file_path, dec)
                 r1 == [r EXCEPT !.decoder_cache = d.decoder_cache]
             IN  IF d.result \in {"Frame", "EndOfStream"}
                 THEN LET rendered == Frame(ts, dec.a, "decoded")
                      IN  [frame |-> Some(rendered),
                           r |-> IF r1.playback_mode THEN r1
                                 ELSE [r1 EXCEPT !.frame_cache =
                                          CachePut(r1.frame_cache, clip.file_path, clip.src_ms,
                                                   rendered,
                                                   IF r1.export_resolution
                                                   THEN EXPORT_RGBA_BYTES
                                                   ELSE PREVIEW_FRAME_BYTES).cache],
                           decoded |-> Decoded(clip, d)]
                 ELSE [frame |-> None, r |-> r1, decoded |-> Decoded(clip, d)]

\* a decode error handed on to the caller of render_frame
DecodeErrSurfaced(r, ts) ==
    [ok |-> FALSE, frame |-> LastOrBlack(r, ts), r |-> r, via |-> "Err", decoded |-> << >>]

\* render_frame, lines 543-554: the Err(e) arm after decode_clip_frame
OnDecodeErr(r, ts) ==
    [ok |-> TRUE, frame |-> LastOrBlack(r, ts), r |-> r, via |-> "Err", decoded |-> << >>]

\* the single-clip path of render_frame, lines 438-555
RenderSingleClip(r, ts, scene, env) ==
    IF scene.clips = << >>
    THEN [ok |-> TRUE, frame |-> BlackFor(r, ts), r |-> r, via |-> "no_clip",
          decoded |-> << >>]
    ELSE
    LET clip == scene.clips[1]
        hit  == CacheGet(r.frame_cache, clip.file_path, clip.src_ms)
    IN  IF IsSome(hit.ret)
        THEN [ok |-> TRUE, frame |-> [Unwrap(hit.ret) EXCEPT !.timestamp_ms = ts],
              r |-> [r EXCEPT !.frame_cache = hit.cache], via |-> "cache_hit",
              decoded |-> << >>]
        ELSE
        LET d  == DecodeClipFrame(r, clip.file_path, env.dec)
            r1 == [r EXCEPT !.decoder_cache = d.decoder_cache]
            rendered == Frame(ts, env.dec.a, "decoded")
        IN  CASE d.result = "Frame" ->
                   [ok |-> TRUE, frame |-> rendered,
                    r |-> [r1 EXCEPT
                             !.frame_cache = IF r1.playback_mode THEN @
                                             ELSE CachePut(@, clip.file_path, clip.src_ms,
                                                           rendered, FrameBytes(r1)).cache,
                             !.last_rendered_frame = Some(rendered),
                             !.last_render_elapsed_ms = env.elapsed],
                    via |-> "Frame", decoded |-> Decoded(clip, d)]
              [] d.result = "EndOfStream" ->
                   [ok |-> TRUE, frame |-> rendered,
                    r |-> [r1 EXCEPT !.last_rendered_frame = Some(rendered)],
                    via |-> "EndOfStream", decoded |-> Decoded(clip, d)]
              [] d.result \in {"FrameSkipped", "EndOfStreamEmpty"} ->
                   [ok |-> TRUE, frame |-> LastOrBlack(r1, ts), r |-> r1, via |-> d.result,
                    decoded |-> Decoded(clip, d)]
              [] d.result = "Err" ->
                   [OnDecodeErr(r1, ts) EXCEPT !.decoded = Decoded(clip, d)]

\* the transition path of render_frame, lines 380-436; falls through to the
\* single-clip path when a source time or a decode is missing
RenderTransition(r, ts, scene, env) ==
    LET info == scene.transitions[1]
    IN  IF /\ r.playback_mode /\ ~r.export_resolution
           /\ r.last_render_elapsed_ms > ADAPTIVE_SKIP_MS
           /\ IsSome(r.last_rendered_frame)
        THEN [ok |-> TRUE,
              frame |-> [Unwrap(r.last_rendered_frame) EXCEPT !.timestamp_ms = ts],
              r |-> [r EXCEPT !.last_render_elapsed_ms = 0], via |-> "adaptive_skip",
              decoded |-> << >>]
        ELSE IF ~(info.out_src_ok /\ info.in_src_ok)
        THEN RenderSingleClip(r, ts, scene, env)
        ELSE LET o == DecodeAndRenderClip(r, info.outgoing, ts, env.dec_out)
                 i == DecodeAndRenderClip(o.r, info.incoming, ts, env.dec_in)
             IN  IF IsSome(o.frame) /\ IsSome(i.frame)
                 THEN LET out_f == [Unwrap(o.frame) EXCEPT
                                      !.kind = IF r.export_resolution THEN "blend_yuv" ELSE "blend",
                                      !.a = IF info.crossfade THEN 255 ELSE env.blend_a]
                      IN  [ok |-> TRUE, frame |-> out_f,
                           r |-> [i.r EXCEPT !.last_rendered_frame = Some(out_f),
                                             !.last_render_elapsed_ms = env.elapsed],
                           via |-> "transition", decoded |-> o.decoded \o i.decoded]
                 ELSE [RenderSingleClip(i.r, ts, scene, env) EXCEPT
                          !.decoded = o.decoded \o i.decoded \o @]

\* a render_frame that waits for the Timeline lock and then renders as if free
RenderFrameBlocking(r, ts, busy, scene, env) ==
    IF scene.clips = << >> /\ scene.transitions = << >>
    THEN [ok |-> TRUE, frame |-> BlackFor(r, ts), r |-> r, via |-> "no_clip",
          decoded |-> << >>]
    ELSE IF scene.transitions # << >>
    THEN RenderTransition(r, ts, scene, env)
    ELSE RenderSingleClip(r, ts, scene, env)

\* Renderer::render_frame: [ok (Ok or Err), frame, r (the renderer afterwards),
\* via (the branch that returned), decoded (what it asked of the decoders)];
\* busy: timeline.try_lock() fails
RenderFrame(r, ts, busy, scene, env) ==
    IF busy
    THEN [ok |-> TRUE, frame |-> LastOrBlack(r, ts), r |-> r, via |-> "timeline_busy",
          decoded |-> << >>]
    ELSE IF scene.clips = << >> /\ scene.transitions = << >>
    THEN [ok |-> TRUE, frame |-> BlackFor(r, ts), r |-> r, via |-> "no_clip",
          decoded |-> << >>]
    ELSE IF scene.transitions # << >>
    THEN RenderTransition(r, ts, scene, env)
    ELSE RenderSingleClip(r, ts, scene, env)

\* Renderer::clear_cache
ClearCache(r) == [r EXCEPT !.frame_cache = CacheClear(@)]

(***************************************************************************)
(* One Renderer (preview or export) called in any order, while another     *)
(* thread takes and releases the Timeline mutex.                           *)
(***************************************************************************)
RenderTimes == {0, 33}

Clip(n, path, src) == [id |-> n, file_path |-> path, src_ms |-> src]

\* TransitionInfo of two overlapping clips; *_src_ok: timeline_to_source_time is Some
Transition(ts, out_ok, in_ok, xfade) ==
    [outgoing |-> Clip(1, "a.mp4", ts), incoming |-> Clip(2, "b.mp4", 0),
     out_src_ok |-> out_ok, in_src_ok |-> in_ok, crossfade |-> xfade]

Scenes(ts) ==
    {[clips |-> << >>, transitions |-> << >>],
     [clips |-> <<Clip(1, "a.mp4", ts)>>, transitions |-> << >>],
     [clips |-> << >>, transitions |-> <<Transition(ts, TRUE, FALSE, TRUE)>>],
     [clips |-> <<Clip(1, "a.mp4", ts)>>, transitions |-> <<Transition(ts, TRUE, TRUE, FALSE)>>]}

DecFrame(alpha) ==
    [open_ok |-> TRUE, first |-> "Frame", state1 |-> "Ready",
     reopen_ok |-> TRUE, second |-> "Frame", state2 |-> "Ready", a |-> alpha]

\* what the decoder of one clip can answer during one decode_clip_frame
DecEnvs ==
    {DecFrame(255)}
    \cup {[DecFrame(255) EXCEPT !.first = "FrameSkipped", !.state1 = st] : st \in {"Ready", "Error"}}
    \cup {[DecFrame(255) EXCEPT !.first = "EndOfStream", !.state1 = "EndOfStream"]}
    \cup {[DecFrame(255) EXCEPT !.first = "EndOfStreamEmpty", !.state1 = "EndOfStream"]}
    \cup {[DecFrame(255) EXCEPT !.open_ok = FALSE, !.first = "Err", !.reopen_ok = FALSE]}
    \cup {[DecFrame(255) EXCEPT !.first = "Err", !.second = o] :
              o \in {"Frame", "FrameSkipped", "EndOfStreamEmpty", "Err"}}

TransitionDecEnvs ==
    {DecFrame(255), [DecFrame(255) EXCEPT !.first = "FrameSkipped"]}

ElapsedTimes == {10, 40}

\* a slow render (40 ms) is tried with decodes that succeed; a failing decode of
\* the single-clip path is tried where a transition falls through to it
RenderEnvs(scene) ==
    IF scene.transitions = << >> /\ scene.clips = << >>
    THEN {[dec |-> DecFrame(255), dec_out |-> DecFrame(255), dec_in |-> DecFrame(255),
           elapsed |-> 10, blend_a |-> 255]}
    ELSE IF scene.transitions = << >>
    THEN {[dec |-> d, dec_out |-> DecFrame(255), dec_in |-> DecFrame(255),
           elapsed |-> 10, blend_a |-> 255] : d \in DecEnvs}
         \cup {[dec |-> DecFrame(255), dec_out |-> DecFrame(255), dec_in |-> DecFrame(255),
                 elapsed |-> 40, blend_a |-> 255]}
    ELSE {[dec |-> DecFrame(255), dec_out |-> DecFrame(255), dec_in |-> DecFrame(255),
           elapsed |-> e, blend_a |-> 255] : e \in ElapsedTimes}
         \cup {[dec |-> d, dec_out |-> o, dec_in |-> i, elapsed |-> 10, blend_a |-> 255] :
                  d \in {DecFrame(255), [DecFrame(255) EXCEPT !.first = "Err", !.second = "Err"]},
                  o \in TransitionDecEnvs, i \in TransitionDecEnvs}

RLastNone == [op |-> "new", ts |-> 0, busy |-> FALSE, ok |-> TRUE, frame |-> None,
              via |-> ""]

RenderInit ==
    /\ renderer \in {RendererNew, RendererNewForExport}
    /\ tl_held = FALSE
    /\ r_last = RLastNone
    /\ timeline = << >>

\* another thread (the audio fill thread) locks the Timeline
TimelineAcquire ==
    /\ ~tl_held
    /\ tl_held' = TRUE
    /\ UNCHANGED <<renderer, r_last, timeline>>

TimelineRelease ==
    /\ tl_held
    /\ tl_held' = FALSE
    /\ UNCHANGED <<renderer, r_last, timeline>>

RenderFrameStep ==
    \E ts \in RenderTimes :
      \E scene \in Scenes(ts) :
        \E env \in RenderEnvs(scene) :
          \E x \in {RenderFrame(renderer, ts, tl_held, scene, env)} :
              /\ renderer' = x.r
              /\ r_last' = [op |-> "render", ts |-> ts, busy |-> tl_held, ok |-> x.ok,
                            frame |-> Some(x.frame), via |-> x.via]
              /\ UNCHANGED <<tl_held, timeline>>

\* renderer_set_playback_mode (ffi/renderer.rs) reaches the preview Renderer only:
\* the export Renderer is a local of the export job
SetPlaybackModeStep ==
    \E b \in BOOLEAN :
        /\ ~renderer.export_resolution
        /\ renderer' = SetPlaybackMode(renderer, b)
        /\ r_last' = [RLastNone EXCEPT !.op = "set_playback_mode"]
        /\ UNCHANGED <<tl_held, timeline>>

\* renderer_clear_cache, preview Renderer only
ClearCacheStep ==
    /\ ~renderer.export_resolution
    /\ renderer' = ClearCache(renderer)
    /\ r_last' = [RLastNone EXCEPT !.op = "clear_cache"]
    /\ UNCHANGED <<tl_held, timeline>>

(***************************************************************************)
(* The video tracks of the Timeline and the walk of render_frame over      *)
(* them.  A speed is the fraction speed_num / speed_den.                   *)
(***************************************************************************)
VideoClip(n, path, proxy, start, duration, trim_start, num, den, tt) ==
    [id |-> n, file_path |-> path, proxy_path |-> proxy,
     start_time_ms |-> start, duration_ms |-> duration, trim_start_ms |-> trim_start,
     speed_num |-> num, speed_den |-> den, transition_type |-> tt]

VideoTrack(n, en, mu, cs) == [id |-> n, enabled |-> en, muted |-> mu, clips |-> cs]

\* VideoClip::end_time_ms
EndTimeMs(clip) == clip.start_time_ms + clip.duration_ms

\* VideoClip::contains_time: the placement range [start_time_ms, start_time_ms + duration_ms)
ContainsTime(clip, time_ms) ==
    clip.start_time_ms <= time_ms /\ time_ms < EndTimeMs(clip)

\* VideoClip::timeline_to_source_time: trim_start_ms + (t - start_time_ms) * speed
TimelineToSourceTime(clip, time_ms) ==
    IF ContainsTime(clip, time_ms)
    THEN Some(clip.trim_start_ms
              + ((time_ms - clip.start_time_ms) * clip.speed_num) \div clip.speed_den)
    ELSE None

\* the clips of a track that contain time_ms, in the order of the track
ActiveClips(track, time_ms) ==
    SelectSeq(track.clips, LAMBDA c : ContainsTime(c, time_ms))

\* VideoTrack::get_clip_at_time
GetClipAtTime(track, time_ms) ==
    IF ~track.enabled \/ track.muted THEN None
    ELSE LET active == ActiveClips(track, time_ms)
         IN  IF active = << >> THEN None ELSE Some(active[1])

\* VideoTrack::get_transition_at_time; progress in thousandths
GetTransitionAtTime(track, time_ms) ==
    IF ~track.enabled THEN None
    ELSE LET active == ActiveClips(track, time_ms)
         IN  IF Len(active) < 2 THEN None
             ELSE LET outgoing == active[1]
                      incoming == active[2]
                      overlap_start == incoming.start_time_ms
                      overlap_duration == EndTimeMs(outgoing) - overlap_start
                      p == ((time_ms - overlap_start) * 1000) \div overlap_duration
                  IN  IF overlap_duration <= 0 THEN None
                      ELSE Some([outgoing |-> outgoing, incoming |-> incoming,
                                 progress |-> IF p < 0 THEN 0 ELSE IF p > 1000 THEN 1000 ELSE p,
                                 transition_type |->
                                     IF incoming.transition_type = "None" THEN "Crossfade"
                                     ELSE incoming.transition_type])

\* a Renderer that never decodes from the proxy
VideoPathOriginal(r, clip) == clip.file_path

\* Renderer::video_path_for_decode: the proxy of a preview, when there is one
VideoPathForDecode(r, clip) ==
    IF r.export_resolution THEN clip.file_path
    ELSE IF IsSome(clip.proxy_path) THEN Unwrap(clip.proxy_path)
    ELSE clip.file_path

\* a clip and the source time asked of it, as the render paths take them
SceneClip(r, clip, src) ==
    Clip(clip.id, VideoPathForDecode(r, clip), IF IsSome(src) THEN Unwrap(src) ELSE 0)

SceneTransition(r, info, ts) ==
    LET out_src == TimelineToSourceTime(info.outgoing, ts)
        in_src  == TimelineToSourceTime(info.incoming, ts)
    IN  [outgoing |-> SceneClip(r, info.outgoing, out_src),
         incoming |-> SceneClip(r, info.incoming, in_src),
         out_src_ok |-> IsSome(out_src), in_src_ok |-> IsSome(in_src),
         crossfade |-> info.transition_type = "Crossfade"]

\* the loop of render_frame over timeline.video_tracks from track i on:
\* every transition is pushed, a clip only while none has been pushed
RECURSIVE WalkTracks(_, _, _, _, _)
WalkTracks(r, tracks, i, ts, acc) ==
    IF i > Len(tracks) THEN acc
    ELSE LET track == tracks[i]
             info  == GetTransitionAtTime(track, ts)
             clip  == GetClipAtTime(track, ts)
         IN  IF ~track.enabled THEN WalkTracks(r, tracks, i + 1, ts, acc)
             ELSE IF IsSome(info)
             THEN WalkTracks(r, tracks, i + 1, ts,
                      [acc EXCEPT !.transitions =
                                     Append(@, SceneTransition(r, Unwrap(info), ts))])
             ELSE IF acc.clips = << >> /\ IsSome(clip)
                     /\ IsSome(TimelineToSourceTime(Unwrap(clip), ts))
             THEN WalkTracks(r, tracks, i + 1, ts,
                      [acc EXCEPT !.clips =
                          <<SceneClip(r, Unwrap(clip),
                                      TimelineToSourceTime(Unwrap(clip), ts))>>])
             ELSE WalkTracks(r, tracks, i + 1, ts, acc)

\* (clips_to_render, transitions) of render_frame
CollectScene(r, tracks, ts) ==
    WalkTracks(r, tracks, 1, ts, [clips |-> << >>, transitions |-> << >>])

ClipA == VideoClip(1, "a.mp4", None, 0, 6000, 0, 1, 1, "None")
ClipB == VideoClip(2, "b.mp4", None, 4000, 4000, 500, 2, 1, "None")
ClipC == VideoClip(3, "c.mp4", Some("c_proxy.mp4"), 1000, 8000, 1000, 1, 2, "None")

\* one clip; a clip above two overlapping ones; two overlapping ones above a
\* clip; a disabled and a muted track above a clip
Timelines ==
    {<<VideoTrack(1, TRUE, FALSE, <<ClipA>>)>>,
     <<VideoTrack(1, TRUE, FALSE, <<ClipC>>), VideoTrack(2, TRUE, FALSE, <<ClipA, ClipB>>)>>,
     <<VideoTrack(1, TRUE, FALSE, <<ClipA, ClipB>>), VideoTrack(2, TRUE, FALSE, <<ClipC>>)>>,
     <<VideoTrack(1, FALSE, FALSE, <<ClipA, ClipB>>), VideoTrack(2, TRUE, TRUE, <<ClipA>>),
       VideoTrack(3, TRUE, FALSE, <<ClipC>>)>>}

ComposeTimes == {2000, 5000}

CLastNone == [op |-> "new", ts |-> 0, busy |-> FALSE, ok |-> TRUE, frame |-> None,
              via |-> "", scene |-> [clips |-> << >>, transitions |-> << >>],
              decoded |-> << >>, playback_mode |-> FALSE]

ComposeInit ==
    /\ renderer \in {RendererNew, RendererNewForExport}
    /\ tl_held = FALSE
    /\ r_last = CLastNone
    /\ timeline \in Timelines

\* render_frame(ts) on the Timeline as it stands
ComposeRenderStep ==
    \E ts \in ComposeTimes :
      \E scene \in {CollectScene(renderer, timeline, ts)} :
          \E env \in RenderEnvs(scene) :
            \E x \in {RenderFrame(renderer, ts, tl_held, scene, env)} :
                /\ renderer' = x.r
                /\ r_last' = [op |-> "render", ts |-> ts, busy |-> tl_held, ok |-> x.ok,
                              frame |-> Some(x.frame), via |-> x.via,
                              scene |-> IF tl_held THEN CLastNone.scene ELSE scene,
                              decoded |-> x.decoded,
                              playback_mode |-> renderer.playback_mode]
                /\ UNCHANGED <<tl_held, timeline>>

\* Timeline::set_track_muted on the video tracks: the first track with the id
SetTrackMuted(tracks, track_id, muted) ==
    [i \in 1..Len(tracks) |->
        IF tracks[i].id = track_id THEN [tracks[i] EXCEPT !.muted = muted] ELSE tracks[i]]

\* timeline_set_track_muted: under the Timeline lock
TimelineSetTrackMuted ==
    /\ ~tl_held
    /\ \E i \in 1..Len(timeline) : \E muted \in BOOLEAN :
          timeline' = SetTrackMuted(timeline, timeline[i].id, muted)
    /\ r_last' = [CLastNone EXCEPT !.op = "set_track_muted"]
    /\ UNCHANGED <<renderer, tl_held>>

(***************************************************************************)
(*                            PlaybackEngine                               *)
(*                                                                         *)
(* The engine sits behind a Mutex (ffi/renderer.rs), so start, stop and    *)
(* try_get_frame never overlap: `caller` is the one thread inside them.    *)
(* A fill thread takes one step per access to shared state (an atomic, the *)
(* queue mutex); what it does on its own Renderer in between belongs to    *)
(* the step.  A thread's locals are dropped when fill_loop returns.        *)
(*                                                                         *)
(* The Timeline of this specification holds one clip, [0, clip_end), or    *)
(* nothing (clip_end = 0); a render of the clip decodes a good frame       *)
(* unless one of the `faults` left is spent on it: the Timeline is busy    *)
(* (the audio fill thread holds it), or the decoder delivers a frame with  *)
(* alpha 0x00 (the post-seek artifact).                                    *)
(***************************************************************************)
MaxStarts == 2
MaxFaults == 1

WARMUP_POLLS == 500
AHEAD_LIMIT_MS == 500
RETRY_LIMIT == 5
SKIP_MS == 200
PEEK_TOLERANCE_MS == 50

StartTimes   == {0, 400}
RequestTimes == {20}
PEClipEnds   == {0, 1000}

Sessions == 1..MaxStarts

ThreadNone == [pc |-> "none", next_ms |-> 0, requested |-> 0, retry_offset |-> 0,
               r |-> RendererNew]
ThreadDone == [ThreadNone EXCEPT !.pc = "done"]

CallerIdle == [pc |-> "idle", op |-> "", start_ms |-> 0, i |-> 0]

FillNone == [kind |-> "", s |-> 0, rendered_ms |-> 0, requested |-> 0, pushed |-> None]
ApiNone  == [op |-> "", ts |-> 0, ret |-> None, warmup_success |-> FALSE, polls |-> 0]

\* pe_last tells what the step just taken did: a render of the fill thread, or
\* a call of the engine's API
PELastNone == [fill |-> FillNone, api |-> ApiNone]

Alive(s) == threads[s].pc \notin {"none", "done"}

\* PlaybackEngine::new
PEInit ==
    /\ frame_queue = << >>
    /\ fill_thread = None
    /\ cancelled = FALSE
    /\ start_time_ms = 0
    /\ current_prefetch_ms = 0
    /\ last_requested_ms = 0
    /\ threads = [s \in Sessions |-> ThreadNone]
    /\ caller = CallerIdle
    /\ pe_last = PELastNone
    /\ \E ce \in PEClipEnds : world = [clip_end |-> ce, faults |-> MaxFaults]

\* ---------------------------------------------------------------- caller

\* stop(), lines 130-134: nothing to do without a thread, else raise cancelled.
\* The caller goes on to `after` when there was no thread.
StopEnter(op, ms, after) ==
    IF fill_thread = None
    THEN /\ caller' = [CallerIdle EXCEPT !.pc = after, !.op = IF after = "idle" THEN "" ELSE op,
                                         !.start_ms = ms]
         /\ UNCHANGED cancelled
    ELSE /\ cancelled' = TRUE
         /\ caller' = [CallerIdle EXCEPT !.pc = "join", !.op = op, !.start_ms = ms]

\* start(start_ms) is called: line 70, self.stop()
CallStart ==
    /\ caller.pc = "idle"
    /\ Cardinality({s \in Sessions : threads[s].pc # "none"}) < MaxStarts
    /\ \E ms \in StartTimes : StopEnter("start", ms, "start_reset")
    /\ pe_last' = [PELastNone EXCEPT !.api = [ApiNone EXCEPT !.op = "start_called"]]
    /\ UNCHANGED <<frame_queue, fill_thread, start_time_ms, current_prefetch_ms,
                   last_requested_ms, threads, world>>

\* stop() is called
CallStop ==
    /\ caller.pc = "idle"
    /\ StopEnter("stop", 0, "idle")
    /\ pe_last' = [PELastNone EXCEPT !.api = [ApiNone EXCEPT !.op =
                        IF fill_thread = None THEN "stop" ELSE "stop_called"]]
    /\ UNCHANGED <<frame_queue, fill_thread, start_time_ms, current_prefetch_ms,
                   last_requested_ms, threads, world>>

\* a join that does not wait for the thread
JoinableNoWait(s) == TRUE

\* JoinHandle::join returns once the thread's function has returned
Joinable(s) == threads[s].pc = "done"

\* stop(), lines 136-138: fill_thread.take() and join
StopJoin ==
    /\ caller.pc = "join"
    /\ Joinable(Unwrap(fill_thread))
    /\ fill_thread' = None
    /\ caller' = [caller EXCEPT !.pc = "stop_clear"]
    /\ pe_last' = PELastNone
    /\ UNCHANGED <<frame_queue, cancelled, start_time_ms, current_prefetch_ms,
                   last_requested_ms, threads, world>>

\* stop(), lines 140-142: clear the queue; stop() returns
StopClear ==
    /\ caller.pc = "stop_clear"
    /\ frame_queue' = << >>
    /\ IF caller.op = "stop"
       THEN /\ caller' = CallerIdle
            /\ pe_last' = [PELastNone EXCEPT !.api = [ApiNone EXCEPT !.op = "stop"]]
       ELSE /\ caller' = [caller EXCEPT !.pc = "start_reset"]
            /\ pe_last' = PELastNone
    /\ UNCHANGED <<fill_thread, cancelled, start_time_ms, current_prefetch_ms,
                   last_requested_ms, threads, world>>

\* start(), lines 72-75: the three timestamps and the cancel flag
StartReset ==
    /\ caller.pc = "start_reset"
    /\ start_time_ms' = caller.start_ms
    /\ current_prefetch_ms' = caller.start_ms
    /\ last_requested_ms' = caller.start_ms
    /\ cancelled' = FALSE
    /\ caller' = [caller EXCEPT !.pc = "start_clear"]
    /\ pe_last' = PELastNone
    /\ UNCHANGED <<frame_queue, fill_thread, threads, world>>

\* start(), lines 78-80
StartClear ==
    /\ caller.pc = "start_clear"
    /\ frame_queue' = << >>
    /\ caller' = [caller EXCEPT !.pc = "spawn"]
    /\ pe_last' = PELastNone
    /\ UNCHANGED <<fill_thread, cancelled, start_time_ms, current_prefetch_ms,
                   last_requested_ms, threads, world>>

\* start(), lines 93-95: thread::spawn of fill_loop
StartSpawn ==
    /\ caller.pc = "spawn"
    /\ LET s == CHOOSE n \in Sessions : threads[n].pc = "none" /\
                    \A m \in Sessions : threads[m].pc = "none" => n <= m
       IN  /\ threads' = [threads EXCEPT ![s] = [ThreadNone EXCEPT !.pc = "start"]]
           /\ fill_thread' = Some(s)
    /\ caller' = [caller EXCEPT !.pc = "warmup", !.i = 0]
    /\ pe_last' = PELastNone
    /\ UNCHANGED <<frame_queue, cancelled, start_time_ms, current_prefetch_ms,
                   last_requested_ms, world>>

\* a warm-up that only looks at the queue on its last poll
WarmupSeesFrameLate(qlen, i) == qlen > 0 /\ i = WARMUP_POLLS - 1

\* line 107: this poll found a frame
WarmupSeesFrame(qlen, i) == qlen > 0

\* The fill thread gets to run after these numbers of polls only: polls in
\* between find the queue as the poll before them did.
WarmupStops == {1, 2, WARMUP_POLLS - 1, WARMUP_POLLS}

\* start(), lines 104-116: the warm-up loop from poll caller.i up to the next
\* stop; it ends with the first poll that sees a frame, or with poll 500, and
\* then start() returns
WarmupPoll ==
    /\ caller.pc = "warmup"
    /\ caller.i < WARMUP_POLLS
    /\ LET n    == Least({st \in WarmupStops : st > caller.i})
           hits == {j \in caller.i..(n - 1) : WarmupSeesFrame(Len(frame_queue), j)}
       IN  IF hits # {}
           THEN /\ caller' = CallerIdle
                /\ pe_last' = [PELastNone EXCEPT !.api = [ApiNone EXCEPT !.op = "start",
                                    !.ts = caller.start_ms, !.warmup_success = TRUE,
                                    !.polls = Least(hits) + 1]]
           ELSE IF n < WARMUP_POLLS
           THEN /\ caller' = [caller EXCEPT !.i = n]
                /\ pe_last' = PELastNone
           ELSE /\ caller' = CallerIdle
                /\ pe_last' = [PELastNone EXCEPT !.api = [ApiNone EXCEPT !.op = "start",
                                    !.ts = caller.start_ms, !.warmup_success = FALSE,
                                    !.polls = n]]
    /\ UNCHANGED <<frame_queue, fill_thread, cancelled, start_time_ms, current_prefetch_ms,
                   last_requested_ms, threads, world>>

\* try_get_frame(ts), line 149: the store
TryGetStore ==
    /\ caller.pc = "idle"
    /\ \E ts \in RequestTimes :
        /\ last_requested_ms' = ts
        /\ caller' = [CallerIdle EXCEPT !.pc = "peek", !.op = "try_get_frame", !.start_ms = ts]
    /\ pe_last' = PELastNone
    /\ UNCHANGED <<frame_queue, fill_thread, cancelled, start_time_ms, current_prefetch_ms,
                   threads, world>>

\* try_get_frame(ts), line 150: lock the queue and peek_nearest(ts, 50)
TryGetPeek ==
    /\ caller.pc = "peek"
    /\ pe_last' = [PELastNone EXCEPT !.api = [ApiNone EXCEPT !.op = "try_get_frame",
                        !.ts = caller.start_ms,
                        !.ret = PeekNearest(frame_queue, caller.start_ms, PEEK_TOLERANCE_MS)]]
    /\ caller' = CallerIdle
    /\ UNCHANGED <<frame_queue, fill_thread, cancelled, start_time_ms, current_prefetch_ms,
                   last_requested_ms, threads, world>>

\* ----------------------------------------------------------- fill thread

\* what the Timeline holds at ts
PEScene(ts) ==
    IF ts < world.clip_end
    THEN [clips |-> <<Clip(1, "a.mp4", ts)>>, transitions |-> << >>]
    ELSE [clips |-> << >>, transitions |-> << >>]

PEEnv(alpha) == [dec |-> DecFrame(alpha), dec_out |-> DecFrame(255), dec_in |-> DecFrame(255),
                 elapsed |-> 10, blend_a |-> 255]

\* the renders one call can meet: [busy, env, cost (faults spent)]
PEOutcomes ==
    {[busy |-> FALSE, env |-> PEEnv(255), cost |-> 0]}
    \cup (IF world.faults > 0
          THEN {[busy |-> TRUE, env |-> PEEnv(255), cost |-> 1],
                [busy |-> FALSE, env |-> PEEnv(0), cost |-> 1]}
          ELSE {})

\* fill_loop, lines 182-185: its own Renderer in playback mode, next_ms
FillBegin(s) ==
    /\ threads[s].pc = "start"
    /\ threads' = [threads EXCEPT ![s] = [@ EXCEPT !.pc = "check",
                        !.r = SetPlaybackMode(RendererNew, TRUE),
                        !.next_ms = current_prefetch_ms]]
    /\ pe_last' = PELastNone
    /\ UNCHANGED <<frame_queue, fill_thread, cancelled, start_time_ms, current_prefetch_ms,
                   last_requested_ms, caller, world>>

\* line 196: while !cancelled
FillCheck(s) ==
    /\ threads[s].pc = "check"
    /\ threads' = [threads EXCEPT ![s] = IF cancelled THEN ThreadDone
                                         ELSE [@ EXCEPT !.pc = "pace"]]
    /\ pe_last' = PELastNone
    /\ UNCHANGED <<frame_queue, fill_thread, cancelled, start_time_ms, current_prefetch_ms,
                   last_requested_ms, caller, world>>

\* lines 211-213: ahead > 500
TooFarAhead(next_ms, requested) == next_ms - requested > AHEAD_LIMIT_MS

\* lines 210-217: read the consumer's clock; sleep 10 ms when more than 500 ms ahead
FillPace(s) ==
    /\ threads[s].pc = "pace"
    /\ LET requested == last_requested_ms
       IN  threads' = [threads EXCEPT ![s] = [@ EXCEPT
                          !.requested = requested,
                          !.pc = IF TooFarAhead(threads[s].next_ms, requested)
                                 THEN "check" ELSE "render"]]
    /\ pe_last' = PELastNone
    /\ UNCHANGED <<frame_queue, fill_thread, cancelled, start_time_ms, current_prefetch_ms,
                   last_requested_ms, caller, world>>

\* a check that lets every frame through
IsBlackNever(frame) == FALSE

\* line 234: frame.data.len() >= 4 && frame.data[3] == 0x00
IsBlack(frame) == frame.a = 0

\* lines 227-312: render at next_ms; a black frame starts the retries, any other
\* frame is pushed
FillRender(s) ==
    /\ threads[s].pc = "render"
    /\ \E o \in PEOutcomes :
      \E x \in {RenderFrame(threads[s].r, threads[s].next_ms, o.busy,
                              PEScene(threads[s].next_ms), o.env)} :
        LET t  == threads[s]
            f  == [x.frame EXCEPT !.by = s]
        IN  /\ world' = [world EXCEPT !.faults = @ - o.cost]
            /\ IF ~x.ok
               THEN /\ threads' = [threads EXCEPT ![s] = [t EXCEPT !.r = x.r, !.pc = "check",
                                        !.next_ms = t.next_ms + FRAME_STEP_MS]]
                    /\ pe_last' = [PELastNone EXCEPT !.fill = [kind |-> "render", s |-> s,
                                        rendered_ms |-> t.next_ms, requested |-> t.requested,
                                        pushed |-> None]]
                    /\ UNCHANGED <<frame_queue, current_prefetch_ms>>
               ELSE IF IsBlack(x.frame)
               THEN /\ threads' = [threads EXCEPT ![s] = [t EXCEPT !.r = x.r, !.pc = "retry",
                                        !.retry_offset = 1]]
                    /\ pe_last' = [PELastNone EXCEPT !.fill = [kind |-> "render", s |-> s,
                                        rendered_ms |-> t.next_ms, requested |-> t.requested,
                                        pushed |-> None]]
                    /\ UNCHANGED <<frame_queue, current_prefetch_ms>>
               ELSE /\ frame_queue' = Push(frame_queue, f)
                    /\ current_prefetch_ms' = t.next_ms
                    /\ threads' = [threads EXCEPT ![s] = [t EXCEPT !.r = x.r, !.pc = "check",
                                        !.next_ms = t.next_ms + FRAME_STEP_MS]]
                    /\ pe_last' = [PELastNone EXCEPT !.fill = [kind |-> "render", s |-> s,
                                        rendered_ms |-> t.next_ms, requested |-> t.requested,
                                        pushed |-> Some(f)]]
    /\ UNCHANGED <<fill_thread, cancelled, start_time_ms, last_requested_ms, caller>>

\* a retry that renders the black frame's own time again
RetryMsSame(next_ms, retry_offset) == next_ms

\* line 241: let retry_ms = next_ms + (retry_offset * 33)
RetryMs(next_ms, retry_offset) == next_ms + retry_offset * FRAME_STEP_MS

\* lines 240-270: one retry, at next_ms + retry_offset * 33; the first frame that
\* is not black is pushed, five failures skip 200 ms
FillRetry(s) ==
    /\ threads[s].pc = "retry"
    /\ \E o \in PEOutcomes :
      \E retry_ms \in {RetryMs(threads[s].next_ms, threads[s].retry_offset)} :
      \E x \in {RenderFrame(threads[s].r, retry_ms, o.busy, PEScene(retry_ms), o.env)} :
        LET t  == threads[s]
            f  == [x.frame EXCEPT !.by = s]
        IN  /\ world' = [world EXCEPT !.faults = @ - o.cost]
            /\ IF x.ok /\ ~IsBlack(x.frame)
               THEN /\ frame_queue' = Push(frame_queue, f)
                    /\ current_prefetch_ms' = retry_ms
                    /\ threads' = [threads EXCEPT ![s] = [t EXCEPT !.r = x.r, !.pc = "check",
                                        !.retry_offset = 0,
                                        !.next_ms = retry_ms + FRAME_STEP_MS]]
                    /\ pe_last' = [PELastNone EXCEPT !.fill = [kind |-> "retry", s |-> s,
                                        rendered_ms |-> retry_ms, requested |-> t.requested,
                                        pushed |-> Some(f)]]
               ELSE /\ threads' = [threads EXCEPT ![s] =
                                        IF t.retry_offset < RETRY_LIMIT
                                        THEN [t EXCEPT !.r = x.r,
                                                       !.retry_offset = t.retry_offset + 1]
                                        ELSE [t EXCEPT !.r = x.r, !.pc = "check",
                                                       !.retry_offset = 0,
                                                       !.next_ms = t.next_ms + SKIP_MS]]
                    /\ pe_last' = [PELastNone EXCEPT !.fill = [kind |-> "retry", s |-> s,
                                        rendered_ms |-> retry_ms, requested |-> t.requested,
                                        pushed |-> None]]
                    /\ UNCHANGED <<frame_queue, current_prefetch_ms>>
    /\ UNCHANGED <<fill_thread, cancelled, start_time_ms, last_requested_ms, caller>>

\* the steps of fill thread s
FillThread(s) ==
    FillBegin(s) \/ FillCheck(s) \/ FillPace(s) \/ FillRender(s) \/ FillRetry(s)

\* the steps of a caller that is inside start() or stop()
CallerRuns ==
    StopJoin \/ StopClear \/ StartReset \/ StartClear \/ StartSpawn \/ WarmupPoll

(***************************************************************************)
(*                             AudioPlayback                               *)
(*                                                                         *)
(* Three threads: the caller of start()/pause()/resume()/stop(), the fill  *)
(* thread, and the device thread that runs the output callback.  Samples   *)
(* are numbered in the order the mixer produced them, so the ring buffer   *)
(* is the range [head, tail) of sample numbers.                            *)
(***************************************************************************)
MaxAudioChunks == 6

SAMPLE_RATE == 48000
CHANNELS == 2
BUFFER_CAPACITY == SAMPLE_RATE * CHANNELS
DECODE_CHUNK_MS == 100
FILL_THRESHOLD == BUFFER_CAPACITY \div 2
PREFILL_CHUNKS == 3

\* AudioMixer::mix_range: samples of one chunk
ChunkSamples == ((DECODE_CHUNK_MS * SAMPLE_RATE) \div 1000) * CHANNELS

\* lengths of the device's output buffer
OutLens == {4800, 19200}

RingNew == [head |-> 0, tail |-> 0]
RingLen(rb) == rb.tail - rb.head

\* a push that keeps the buffer at the fill threshold instead of the capacity
RingPushHalfCapacity(rb, n) ==
    LET available == IF FILL_THRESHOLD > RingLen(rb) THEN FILL_THRESHOLD - RingLen(rb) ELSE 0
        discard   == IF n > available THEN n - available ELSE 0
        drained   == IF discard < RingLen(rb) THEN discard ELSE RingLen(rb)
    IN  [head |-> rb.head + drained, tail |-> rb.tail + n]

\* AudioRingBuffer::push of n samples
RingPush(rb, n) ==
    LET available == IF BUFFER_CAPACITY > RingLen(rb) THEN BUFFER_CAPACITY - RingLen(rb) ELSE 0
        discard   == IF n > available THEN n - available ELSE 0
        drained   == IF discard < RingLen(rb) THEN discard ELSE RingLen(rb)
    IN  [head |-> rb.head + drained, tail |-> rb.tail + n]

\* a fill_output that copies from the front slice only
FillOutputFrontOnly(rb, n, front_len) ==
    LET available  == IF RingLen(rb) < n THEN RingLen(rb) ELSE n
        front_copy == IF front_len < available THEN front_len ELSE available
    IN  [ring |-> [rb EXCEPT !.head = rb.head + front_copy],
         front |-> [at |-> 0, first |-> rb.head, count |-> front_copy],
         back  |-> [at |-> front_copy, first |-> rb.head + front_len, count |-> 0],
         zero_from |-> available,
         zeros |-> n - available]

\* AudioRingBuffer::fill_output into an output of n samples, when as_slices()
\* gives a front slice of front_len samples and the rest as the back slice.
\* Each copy is [at (offset in the output), first (number of the first sample
\* copied), count]; zero_from is where the zero fill of the output starts.
FillOutput(rb, n, front_len) ==
    LET available  == IF RingLen(rb) < n THEN RingLen(rb) ELSE n
        back_len   == RingLen(rb) - front_len
        front_copy == IF front_len < available THEN front_len ELSE available
        rest       == available - front_copy
        back_copy  == IF rest < back_len THEN rest ELSE back_len
        written    == front_copy + back_copy
    IN  [ring |-> IF available > 0 THEN [rb EXCEPT !.head = rb.head + written] ELSE rb,
         front |-> [at |-> 0, first |-> rb.head,
                    count |-> IF available > 0 THEN front_copy ELSE 0],
         back  |-> [at |-> front_copy, first |-> rb.head + front_len,
                    count |-> IF available > 0 THEN back_copy ELSE 0],
         zero_from |-> available,
         zeros |-> n - available]

\* fill_output as the callback sees it: what is removed and what is silence do
\* not depend on where the deque wraps.
\* [ring, first (number of the first sample copied), copied, zeros]
RingFillOutput(rb, n) ==
    LET x == FillOutput(rb, n, RingLen(rb))
    IN  [ring |-> x.ring, first |-> rb.head, copied |-> x.front.count + x.back.count,
         zeros |-> x.zeros]

(***************************************************************************)
(* The AudioRingBuffer on its own: pushes of a chunk, of nearly a whole    *)
(* buffer and of more than a whole buffer, and fill_output calls, for      *)
(* every place the deque may wrap.                                         *)
(***************************************************************************)
MaxRingSamples == 300000

PushLens == {ChunkSamples, BUFFER_CAPACITY - ChunkSamples, BUFFER_CAPACITY + 1}

\* lengths as_slices() may give the front slice of a deque of len samples
FrontLens(len) == IF len = 0 THEN {0}
                  ELSE {len} \cup {k \in {1, 4800, len \div 2} : k >= 1 /\ k < len}

RingLastNone == [op |-> "new", n |-> 0, before |-> RingNew, out |-> FillOutput(RingNew, 0, 0)]

RingInit ==
    /\ ring = RingNew
    /\ a_last = RingLastNone

RingPushStep ==
    \E n \in PushLens :
        /\ ring.tail + n <= MaxRingSamples
        /\ ring' = RingPush(ring, n)
        /\ a_last' = [RingLastNone EXCEPT !.op = "push", !.n = n, !.before = ring]

RingFillStep ==
    \E n \in OutLens : \E f \in FrontLens(RingLen(ring)) :
        LET x == FillOutput(ring, n, f)
        IN  /\ ring' = x.ring
            /\ a_last' = [op |-> "fill_output", n |-> n, before |-> ring, out |-> x]

\* the locals of the fill thread; start_time_ms: the time start() was given;
\* mixed: the chunk (its start time) mix_range produced last; pushed: the
\* chunks handed to the ring buffer so far
AFillNone == [pc |-> "none", prefilled |-> 0, current_time_ms |-> 0, chunks |-> 0,
              start_time_ms |-> 0, mixed |-> 0, pushed |-> << >>]
CbIdle    == [pc |-> "idle", n |-> 0]
ALastNone == [op |-> "", n |-> 0, playing |-> FALSE, held |-> FALSE, got_lock |-> FALSE,
              zeros |-> 0, copied |-> 0, removed |-> 0]

AudioStartTimes == {0}

\* AudioPlayback::start, lines 130-141: the flags, and the fill thread spawned
AudioInit ==
    /\ ring = RingNew
    /\ buf_lock = "free"
    /\ is_playing = TRUE
    /\ a_cancelled = FALSE
    /\ prefill_done = FALSE
    /\ \E t \in AudioStartTimes : afill = [AFillNone EXCEPT !.pc = "p1_check", !.current_time_ms = t,
                                                           !.start_time_ms = t]
    /\ acb = CbIdle
    /\ acaller = "wait_prefill"
    /\ a_waited = 0
    /\ a_last = ALastNone

\* ------------------------------------------------------------ fill thread

\* lines 148-152 and 174-177: leave phase 1 when cancelled or prefilled
AFillPrefillCheck ==
    /\ afill.pc = "p1_check"
    /\ IF a_cancelled
       THEN /\ prefill_done' = TRUE
            /\ afill' = [afill EXCEPT !.pc = "done"]
       ELSE IF afill.prefilled < PREFILL_CHUNKS
       THEN /\ afill' = [afill EXCEPT !.pc = "p1_tl"]
            /\ UNCHANGED prefill_done
       ELSE /\ prefill_done' = TRUE
            /\ afill' = [afill EXCEPT !.pc = "p2_check"]
    /\ a_last' = ALastNone
    /\ UNCHANGED <<ring, buf_lock, is_playing, a_cancelled, acb, acaller, a_waited>>

\* lines 154-166 and 199-211: timeline.try_lock(), then mix one chunk
AFillTimeline(from, back, to) ==
    /\ afill.pc = from
    /\ \E busy \in BOOLEAN :
        IF busy THEN afill' = [afill EXCEPT !.pc = back]
        ELSE /\ afill.chunks < MaxAudioChunks
             /\ afill' = [afill EXCEPT !.pc = to, !.chunks = @ + 1,
                                       !.mixed = afill.current_time_ms]
    /\ a_last' = ALastNone
    /\ UNCHANGED <<ring, buf_lock, is_playing, a_cancelled, prefill_done, acb, acaller, a_waited>>

\* lines 168 and 213: buffer.lock() waits for the mutex
AFillLock(from, to) ==
    /\ afill.pc = from
    /\ buf_lock = "free"
    /\ buf_lock' = "fill"
    /\ afill' = [afill EXCEPT !.pc = to]
    /\ a_last' = ALastNone
    /\ UNCHANGED <<ring, is_playing, a_cancelled, prefill_done, acb, acaller, a_waited>>

\* lines 169-173 and 214-217: push, unlock, advance
AFillPush(from, to, prefill) ==
    /\ afill.pc = from
    /\ ring' = RingPush(ring, ChunkSamples)
    /\ buf_lock' = "free"
    /\ afill' = [afill EXCEPT !.pc = to, !.current_time_ms = @ + DECODE_CHUNK_MS,
                              !.prefilled = IF prefill THEN @ + 1 ELSE @,
                              !.pushed = Append(@, afill.mixed)]
    /\ a_last' = ALastNone
    /\ UNCHANGED <<is_playing, a_cancelled, prefill_done, acb, acaller, a_waited>>

\* line 180: while !cancelled
AFillCheck ==
    /\ afill.pc = "p2_check"
    /\ afill' = [afill EXCEPT !.pc = IF a_cancelled THEN "done" ELSE "p2_playing"]
    /\ a_last' = ALastNone
    /\ UNCHANGED <<ring, buf_lock, is_playing, a_cancelled, prefill_done, acb, acaller, a_waited>>

\* lines 181-184: paused, sleep 10 ms
AFillPlaying ==
    /\ afill.pc = "p2_playing"
    /\ afill' = [afill EXCEPT !.pc = IF is_playing THEN "p2_try" ELSE "p2_check"]
    /\ a_last' = ALastNone
    /\ UNCHANGED <<ring, buf_lock, is_playing, a_cancelled, prefill_done, acb, acaller, a_waited>>

\* lines 186-192: buffer.try_lock()
AFillTryLock ==
    /\ afill.pc = "p2_try"
    /\ IF buf_lock = "free"
       THEN buf_lock' = "fill" /\ afill' = [afill EXCEPT !.pc = "p2_len"]
       ELSE afill' = [afill EXCEPT !.pc = "p2_check"] /\ UNCHANGED buf_lock
    /\ a_last' = ALastNone
    /\ UNCHANGED <<ring, is_playing, a_cancelled, prefill_done, acb, acaller, a_waited>>

\* a fill thread that mixes whatever the fill level is
AFillLenNoThreshold ==
    /\ afill.pc = "p2_len"
    /\ buf_lock' = "free"
    /\ afill' = [afill EXCEPT !.pc = "p2_tl"]
    /\ a_last' = ALastNone
    /\ UNCHANGED <<ring, is_playing, a_cancelled, prefill_done, acb, acaller, a_waited>>

\* lines 187 and 194-197: buf.len(), unlock; above the threshold, sleep 10 ms
AFillLen ==
    /\ afill.pc = "p2_len"
    /\ buf_lock' = "free"
    /\ afill' = [afill EXCEPT !.pc = IF RingLen(ring) > FILL_THRESHOLD THEN "p2_check"
                                     ELSE "p2_tl"]
    /\ a_last' = ALastNone
    /\ UNCHANGED <<ring, is_playing, a_cancelled, prefill_done, acb, acaller, a_waited>>

\* -------------------------------------------------------- output callback

\* the device calls the callback once the stream plays (line 262); a stream
\* that could not be built or started never calls it
StreamPlaying == acaller \notin {"none", "wait_prefill", "start_failed"}

CallbackDone(n, playing, held, got, x) ==
    [op |-> "callback", n |-> n, playing |-> playing, held |-> held, got_lock |-> got,
     zeros |-> x.zeros, copied |-> x.copied, removed |-> x.ring.head - ring.head]

\* the output all zeros, the ring untouched
Silence(n) == [ring |-> ring, first |-> ring.head, copied |-> 0, zeros |-> n]

\* lines 235-240: is_playing.load(); when false, zeros and return
CbBegin ==
    /\ acb.pc = "idle"
    /\ StreamPlaying
    /\ \E n \in OutLens :
        IF is_playing
        THEN /\ acb' = [pc |-> "try", n |-> n]
             /\ a_last' = ALastNone
        ELSE /\ acb' = CbIdle
             /\ a_last' = CallbackDone(n, FALSE, buf_lock # "free", FALSE, Silence(n))
    /\ UNCHANGED <<ring, buf_lock, is_playing, a_cancelled, prefill_done, afill, acaller, a_waited>>

\* a try_lock that takes the buffer whoever holds the mutex
TryLockAnyway(holder) == TRUE

\* Mutex::try_lock succeeds when nobody holds the mutex
TryLockOk(holder) == holder = "free"

\* lines 244-254: buffer.try_lock(); when it fails, zeros and return
CbTryLock ==
    /\ acb.pc = "try"
    /\ IF TryLockOk(buf_lock)
       THEN /\ buf_lock' = "cb"
            /\ acb' = [acb EXCEPT !.pc = "locked"]
            /\ a_last' = ALastNone
       ELSE /\ acb' = CbIdle
            /\ a_last' = CallbackDone(acb.n, TRUE, TRUE, FALSE, Silence(acb.n))
            /\ UNCHANGED buf_lock
    /\ UNCHANGED <<ring, is_playing, a_cancelled, prefill_done, afill, acaller, a_waited>>

\* lines 245-247: fill_output under the lock, unlock, return
CbFill ==
    /\ acb.pc = "locked"
    /\ LET x == RingFillOutput(ring, acb.n)
       IN  /\ ring' = x.ring
           /\ a_last' = CallbackDone(acb.n, TRUE, FALSE, TRUE, x)
    /\ buf_lock' = "free"
    /\ acb' = CbIdle
    /\ UNCHANGED <<is_playing, a_cancelled, prefill_done, afill, acaller, a_waited>>

CbStep == CbBegin \/ CbTryLock \/ CbFill

\* ----------------------------------------------------------------- caller

PREFILL_WAIT_MS == 500
WAIT_POLL_MS == 2

\* a start() that waits for the prefill however long it takes
AStartWaitNoTimeout ==
    /\ acaller = "wait_prefill"
    /\ IF prefill_done
       THEN /\ acaller' = "running"
            /\ a_waited' = 0
            /\ a_last' = [ALastNone EXCEPT !.op = "start_stream", !.n = a_waited]
       ELSE /\ a_waited' = IF a_waited > PREFILL_WAIT_MS THEN a_waited
                           ELSE a_waited + WAIT_POLL_MS
            /\ a_last' = ALastNone
            /\ UNCHANGED acaller
    /\ UNCHANGED <<ring, buf_lock, is_playing, a_cancelled, prefill_done, afill, acb>>

\* start(), lines 221-262, one turn of the wait loop: prefill_done is set or
\* more than 500 ms have passed, then build and play the stream and return
\* (a_last.n: how long the wait was; wait_start is dropped); otherwise sleep
\* 2 ms
AStartWait ==
    /\ acaller = "wait_prefill"
    /\ IF prefill_done \/ a_waited > PREFILL_WAIT_MS
       THEN /\ acaller' = "running"
            /\ a_waited' = 0
            /\ a_last' = [ALastNone EXCEPT !.op = "start_stream", !.n = a_waited]
       ELSE /\ a_waited' = a_waited + WAIT_POLL_MS
            /\ a_last' = ALastNone
            /\ UNCHANGED acaller
    /\ UNCHANGED <<ring, buf_lock, is_playing, a_cancelled, prefill_done, afill, acb>>

\* start(), lines 230-265, when build_output_stream() or stream.play()
\* fails: map_err(..)? returns the Err at once. No AudioPlayback was built, so
\* no Drop and no stop() runs: cancelled and is_playing stay as they are and
\* the JoinHandle of the fill thread is dropped, which detaches the thread
AStartStreamFails ==
    /\ acaller = "wait_prefill"
    /\ prefill_done \/ a_waited > PREFILL_WAIT_MS
    /\ acaller' = "start_failed"
    /\ a_waited' = 0
    /\ a_last' = [ALastNone EXCEPT !.op = "start_err", !.n = a_waited]
    /\ UNCHANGED <<ring, buf_lock, is_playing, a_cancelled, prefill_done, afill, acb>>

\* pause() and resume()
ASetPlaying(b) ==
    /\ acaller \in {"running", "stopped"}
    /\ is_playing # b
    /\ is_playing' = b
    /\ a_last' = ALastNone
    /\ UNCHANGED <<ring, buf_lock, a_cancelled, prefill_done, afill, acb, acaller, a_waited>>

\* stop(), line 277
AStopCancel ==
    /\ acaller = "running"
    /\ a_cancelled' = TRUE
    /\ acaller' = "stop_playing"
    /\ a_last' = ALastNone
    /\ UNCHANGED <<ring, buf_lock, is_playing, prefill_done, afill, acb, a_waited>>

\* stop(), line 278
AStopPlaying ==
    /\ acaller = "stop_playing"
    /\ is_playing' = FALSE
    /\ acaller' = "join"
    /\ a_last' = ALastNone
    /\ UNCHANGED <<ring, buf_lock, a_cancelled, prefill_done, afill, acb, a_waited>>

\* a stop() that does not wait for the fill thread
AStopJoinNoWait ==
    /\ acaller = "join"
    /\ acaller' = "stop_lock"
    /\ a_last' = ALastNone
    /\ UNCHANGED <<ring, buf_lock, is_playing, a_cancelled, prefill_done, afill, acb, a_waited>>

\* stop(), lines 281-283: join the fill thread
AStopJoin ==
    /\ acaller = "join"
    /\ afill.pc = "done"
    /\ acaller' = "stop_lock"
    /\ a_last' = ALastNone
    /\ UNCHANGED <<ring, buf_lock, is_playing, a_cancelled, prefill_done, afill, acb, a_waited>>

\* stop(), line 286: buffer.lock()
AStopLock ==
    /\ acaller = "stop_lock"
    /\ buf_lock = "free"
    /\ buf_lock' = "stop"
    /\ acaller' = "stop_clear"
    /\ a_last' = ALastNone
    /\ UNCHANGED <<ring, is_playing, a_cancelled, prefill_done, afill, acb, a_waited>>

\* stop(), line 287: samples.clear(), unlock; stop() returns
AStopClear ==
    /\ acaller = "stop_clear"
    /\ ring' = [head |-> ring.tail, tail |-> ring.tail]
    /\ buf_lock' = "free"
    /\ acaller' = "stopped"
    /\ a_last' = ALastNone
    /\ UNCHANGED <<is_playing, a_cancelled, prefill_done, afill, acb, a_waited>>

(***************************************************************************)
(*                        Decoder (ffmpeg/decoder.rs)                      *)
(*                                                                         *)
(* The container is a list of video frames numbered 0..frames-1 in decode  *)
(* order, frame i with PTS i * pts_step in the stream's time base (some    *)
(* frames without a PTS), a keyframe every key_every frames.  The codec    *)
(* gives one frame per packet, so the decoder's own buffer is empty        *)
(* between calls, and pos is the number of the next packet the demuxer     *)
(* reads.  A decoded frame is [src (the container frame), timestamp_ms     *)
(* (the stamp convert_frame gives it)].  Whether a container seek or a     *)
(* frame conversion fails is an input of the call.  The 3000-packet limit  *)
(* of one scan is out of reach of these containers.                        *)
(***************************************************************************)
MaxDecoderFaults == 2

DEFAULT_FORWARD_THRESHOLD_MS == 100

\* the containers: fps = fps_num / 1, time base = 1 / tb_den
Medias ==
    { [fps_num |-> 30, tb_den |-> 90000, pts_step |-> 3000, frames |-> 6,
       key_every |-> 3, no_pts |-> {}],
      [fps_num |-> 10, tb_den |-> 90000, pts_step |-> 9000, frames |-> 3,
       key_every |-> 2, no_pts |-> {}],
      [fps_num |-> 30, tb_den |-> 90000, pts_step |-> 3000, frames |-> 4,
       key_every |-> 4, no_pts |-> {1}] }

\* the timestamps requested, and the thresholds the renderer sets
DecodeTimes == {0, 100, 150, 250}
ForwardThresholds == {SCRUB_THRESHOLD_MS, PLAYBACK_THRESHOLD_MS}

\* (1000.0 / fps).max(1.0) as i64
FrameDurationMs(m) == IF 1000 \div m.fps_num < 1 THEN 1 ELSE 1000 \div m.fps_num

\* (ms * tb.denominator) / (tb.numerator * 1000), the numerator being 1
MsToPts(m, ms) == (ms * m.tb_den) \div 1000

\* frame.pts() of container frame i
FramePts(m, i) == IF i \in m.no_pts THEN None ELSE Some(i * m.pts_step)

\* Decoder::open_internal, lines 195-211
DecoderOpen(m) ==
    [media |-> m, state |-> "Ready", last_timestamp_ms |-> -1,
     last_decoded_frame |-> None, forward_threshold_ms |-> DEFAULT_FORWARD_THRESHOLD_MS,
     eof_timestamp_ms |-> None, pos |-> 0]

\* Decoder::set_forward_threshold
SetForwardThreshold(d, threshold_ms) == [d EXCEPT !.forward_threshold_ms = threshold_ms]

\* is_pts_at_target: target_info is None or Some(<<target_pts, tolerance_pts>>)
IsPtsAtTarget(target_info, pts) ==
    IF ~IsSome(target_info) THEN TRUE
    ELSE IF ~IsSome(pts) THEN TRUE
    ELSE Unwrap(pts) >= Unwrap(target_info)[1] - Unwrap(target_info)[2]

\* input_ctx.seek(ts_us, ..ts_us): the demuxer lands on the last keyframe
\* whose time is not after timestamp_ms (the first one if there is none)
SeekLanding(m, timestamp_ms) ==
    LET keys == {i \in 0..(m.frames - 1) :
                    /\ i % m.key_every = 0
                    /\ i * m.pts_step * 1000 <= timestamp_ms * m.tb_den}
    IN  IF keys = {} THEN 0 ELSE CHOOSE i \in keys : \A j \in keys : j <= i

\* a seek that gives up after the first failed attempt
SeekNoRetry(d, timestamp_ms, ok1, ok2) ==
    IF ok1
    THEN [dec |-> [d EXCEPT !.state = "Ready", !.eof_timestamp_ms = None,
                            !.pos = SeekLanding(d.media, timestamp_ms)],
          ok |-> TRUE, attempts |-> 1]
    ELSE [dec |-> [d EXCEPT !.state = "Error"], ok |-> FALSE, attempts |-> 1]

\* Decoder::seek: ok1 and ok2 say whether the first attempt and the retry succeed
Seek(d, timestamp_ms, ok1, ok2) ==
    IF ok1
    THEN [dec |-> [d EXCEPT !.state = "Ready", !.eof_timestamp_ms = None,
                            !.pos = SeekLanding(d.media, timestamp_ms)],
          ok |-> TRUE, attempts |-> 1]
    ELSE IF ok2
    THEN [dec |-> [d EXCEPT !.state = "Ready",
                            !.pos = SeekLanding(d.media, timestamp_ms)],
          ok |-> TRUE, attempts |-> 2]
    ELSE [dec |-> [d EXCEPT !.state = "Error"], ok |-> FALSE, attempts |-> 2]

\* match &self.last_decoded_frame { Some(f) => EndOfStream(f), None => EndOfStreamEmpty }
LastOrEmpty(d) ==
    IF IsSome(d.last_decoded_frame)
    THEN [kind |-> "EndOfStream", frame |-> d.last_decoded_frame]
    ELSE [kind |-> "EndOfStreamEmpty", frame |-> None]

\* a decoder that never takes itself to be in Error state
InErrorNever(d) == FALSE

\* line 252: self.state == DecoderState::Error
InError(d) == d.state = "Error"

\* an EOF cache that answers only requests beyond the recorded timestamp
EofCachedBeyond(d, timestamp_ms) ==
    IsSome(d.eof_timestamp_ms) /\ timestamp_ms > Unwrap(d.eof_timestamp_ms)

\* lines 261-262: an EOF is cached at or before the requested timestamp
EofCached(d, timestamp_ms) ==
    IsSome(d.eof_timestamp_ms) /\ timestamp_ms >= Unwrap(d.eof_timestamp_ms)

\* lines 276-285: is_ahead, is_immediate, is_forward, needs_seek
IsAhead(d, timestamp_ms) == d.state = "Ready" /\ timestamp_ms >= d.last_timestamp_ms
IsImmediate(d, timestamp_ms) ==
    /\ IsAhead(d, timestamp_ms)
    /\ timestamp_ms - d.last_timestamp_ms <= FrameDurationMs(d.media) * 2
IsForward(d, timestamp_ms) ==
    /\ IsAhead(d, timestamp_ms)
    /\ ~IsImmediate(d, timestamp_ms)
    /\ timestamp_ms - d.last_timestamp_ms <= d.forward_threshold_ms

\* a policy that seeks on every request
NeedsSeekAlways(d, timestamp_ms) == TRUE

NeedsSeek(d, timestamp_ms) == ~IsImmediate(d, timestamp_ms) /\ ~IsForward(d, timestamp_ms)

\* lines 304-314: target_pts and tolerance_pts, or None for an immediate request
TargetInfo(d, timestamp_ms, immediate) ==
    IF immediate THEN None
    ELSE Some(<<MsToPts(d.media, timestamp_ms), MsToPts(d.media, FrameDurationMs(d.media))>>)

\* lines 336-383: read packets from pos until a frame is at the target or the
\* container ends: [found, latest_seen (the last frame read and passed over), pos]
RECURSIVE Scan(_, _, _, _)
Scan(m, pos, target_info, latest_seen) ==
    IF pos >= m.frames
    THEN [found |-> None, latest_seen |-> latest_seen, pos |-> pos]
    ELSE IF IsPtsAtTarget(target_info, FramePts(m, pos))
    THEN [found |-> Some(pos), latest_seen |-> latest_seen, pos |-> pos + 1]
    ELSE Scan(m, pos + 1, target_info, Some(pos))

\* Decoder::decode_frame.  env = [seek1_ok, seek2_ok, convert_ok].
\* The result: the decoder afterwards, what is returned, the seek attempts
\* made, the packets read, and whether the scan ran into the end.
DecodeFrame(d, timestamp_ms, env) ==
    LET quiet(r) == [dec |-> d, ret |-> r, attempts |-> 0, read |-> 0, hit_eof |-> FALSE,
                     converted |-> FALSE, seek_ok |-> TRUE]
    IN
    IF InError(d) THEN quiet(LastOrEmpty(d))
    ELSE IF EofCached(d, timestamp_ms) THEN quiet(LastOrEmpty(d))
    ELSE
    LET d1 == [d EXCEPT !.eof_timestamp_ms = None]
        immediate == IsImmediate(d1, timestamp_ms)
        needs_seek == NeedsSeek(d1, timestamp_ms)
        sk == IF needs_seek THEN Seek(d1, timestamp_ms, env.seek1_ok, env.seek2_ok)
              ELSE [dec |-> d1, ok |-> TRUE, attempts |-> 0]
    IN
    IF ~sk.ok
    THEN [dec |-> sk.dec,
          ret |-> IF IsSome(sk.dec.last_decoded_frame)
                  THEN [kind |-> "FrameSkipped", frame |-> None]
                  ELSE [kind |-> "EndOfStreamEmpty", frame |-> None],
          attempts |-> sk.attempts, read |-> 0, hit_eof |-> FALSE, converted |-> FALSE,
          seek_ok |-> FALSE]
    ELSE
    LET d2 == [sk.dec EXCEPT !.last_timestamp_ms = timestamp_ms]
        sc == Scan(d2.media, d2.pos, TargetInfo(d2, timestamp_ms, immediate), None)
        d3 == [d2 EXCEPT !.pos = sc.pos]
        n  == sc.pos - d2.pos
    IN
    IF ~IsSome(sc.found)
    THEN \* hit_eof, lines 390-409
         LET d4 == [d3 EXCEPT !.state = "EndOfStream",
                              !.eof_timestamp_ms = Some(timestamp_ms)]
         IN  IF IsSome(sc.latest_seen) /\ env.convert_ok
             THEN LET f == [src |-> Unwrap(sc.latest_seen), timestamp_ms |-> timestamp_ms]
                  IN  [dec |-> [d4 EXCEPT !.last_decoded_frame = Some(f)],
                       ret |-> [kind |-> "EndOfStream", frame |-> Some(f)],
                       attempts |-> sk.attempts, read |-> n, hit_eof |-> TRUE,
                       converted |-> TRUE, seek_ok |-> TRUE]
             ELSE [dec |-> d4, ret |-> LastOrEmpty(d4),
                   attempts |-> sk.attempts, read |-> n, hit_eof |-> TRUE,
                   converted |-> IsSome(sc.latest_seen), seek_ok |-> TRUE]
    ELSE IF ~env.convert_ok
    THEN [dec |-> d3, ret |-> [kind |-> "Err", frame |-> None],
          attempts |-> sk.attempts, read |-> n, hit_eof |-> FALSE, converted |-> TRUE, seek_ok |-> TRUE]
    ELSE LET f == [src |-> Unwrap(sc.found), timestamp_ms |-> timestamp_ms]
         IN  [dec |-> [d3 EXCEPT !.last_decoded_frame = Some(f), !.state = "Ready"],
              ret |-> [kind |-> "Frame", frame |-> Some(f)],
              attempts |-> sk.attempts, read |-> n, hit_eof |-> FALSE, converted |-> TRUE, seek_ok |-> TRUE]

(***************************************************************************)
(* One decoder and its callers: decode_frame at any of DecodeTimes,        *)
(* set_forward_threshold as the renderer calls it, and seek called as the  *)
(* public method it is.  dec_faults is the number of failures (of a seek   *)
(* attempt or of a conversion) the input may still inject.  dec_eof        *)
(* remembers the last scan that ran into the end of the container, until   *)
(* a lower timestamp is requested or seek is called: [ts, ret].            *)
(***************************************************************************)
DecLastNone == [op |-> "open", from |-> "Ready", ts |-> 0, gap |-> 0, ret |-> [kind |-> "", frame |-> None],
                attempts |-> 0, read |-> 0, seek_ok |-> TRUE,
                seek1_ok |-> TRUE, seek2_ok |-> TRUE]

DecoderInit ==
    /\ \E m \in Medias : decoder = DecoderOpen(m)
    /\ dec_last = DecLastNone
    /\ dec_faults = MaxDecoderFaults
    /\ dec_eof = None
    /\ dec_produced = FALSE

\* the failures a call with this input and this outcome has used
FaultsUsed(env, attempts, converted) ==
    (IF attempts >= 1 /\ ~env.seek1_ok THEN 1 ELSE 0)
    + (IF attempts >= 2 /\ ~env.seek2_ok THEN 1 ELSE 0)
    + (IF converted /\ ~env.convert_ok THEN 1 ELSE 0)

DecodeEnvs == [seek1_ok : BOOLEAN, seek2_ok : BOOLEAN, convert_ok : BOOLEAN]

DecodeFrameStep ==
    \E ts \in DecodeTimes : \E env \in DecodeEnvs :
      \E x \in {DecodeFrame(decoder, ts, env)} :
        LET used == FaultsUsed(env, x.attempts, x.converted)
        IN  /\ used <= dec_faults
            \* an input that fails where nothing was attempted is the same call
            /\ (x.attempts < 1 => env.seek1_ok) /\ (x.attempts < 2 => env.seek2_ok)
            /\ (~x.converted => env.convert_ok)
            /\ decoder' = x.dec
            /\ dec_faults' = dec_faults - used
            /\ dec_produced' = (dec_produced \/ IsSome(x.ret.frame))
            /\ dec_last' = [op |-> "decode_frame", from |-> decoder.state, ts |-> ts,
                            gap |-> ts - decoder.last_timestamp_ms,
                            ret |-> x.ret,
                            attempts |-> x.attempts, read |-> x.read,
                            seek_ok |-> x.seek_ok,
                            seek1_ok |-> env.seek1_ok, seek2_ok |-> env.seek2_ok]
            /\ dec_eof' = IF x.hit_eof THEN Some([ts |-> ts, ret |-> x.ret])
                          ELSE IF IsSome(dec_eof) /\ ts < Unwrap(dec_eof).ts THEN None
                          ELSE dec_eof

DecoderSeekStep ==
    \E ts \in DecodeTimes : \E ok1, ok2 \in BOOLEAN :
      \E x \in {Seek(decoder, ts, ok1, ok2)} :
        LET used == FaultsUsed([seek1_ok |-> ok1, seek2_ok |-> ok2, convert_ok |-> TRUE],
                             x.attempts, FALSE)
        IN  /\ used <= dec_faults
            /\ (x.attempts < 2 => ok2)
            /\ decoder' = x.dec
            /\ dec_faults' = dec_faults - used
            /\ UNCHANGED dec_produced
            /\ dec_last' = [DecLastNone EXCEPT !.op = "seek", !.from = decoder.state,
                                               !.ts = ts,
                                               !.attempts = x.attempts, !.seek_ok = x.ok,
                                               !.seek1_ok = ok1, !.seek2_ok = ok2]
            /\ dec_eof' = None

SetForwardThresholdStep ==
    \E th \in ForwardThresholds :
        /\ th # decoder.forward_threshold_ms
        /\ decoder' = SetForwardThreshold(decoder, th)
        /\ dec_last' = [DecLastNone EXCEPT !.op = "set_forward_threshold",
                                           !.from = decoder.state]
        /\ UNCHANGED <<dec_faults, dec_eof, dec_produced>>

(***************************************************************************)
(*                 ExportJob (encoding/exporter.rs)                        *)
(*                                                                         *)
(* xjob holds the job's shared flags (progress, cancelled, finished,       *)
(* error), the locals of the export thread (pc, frame_index,               *)
(* total_frames), the VideoEncoder the thread owns, and three records of   *)
(* what happened: rendered (the timestamps rendered, each with the cancel  *)
(* flag as it stood then), faults (failures the environment injected) and  *)
(* cancel_pc (where the thread was when cancel() was called).  fps is a    *)
(* whole number of frames per second, for which the f64 arithmetic of the  *)
(* code is exact at the sizes used here.  Failures of the Timeline lock,   *)
(* of ffmpeg and of render_frame are inputs of the steps.                  *)
(***************************************************************************)
ExportConfigs == [width : {0, ExportWidth}, height : {0, ExportHeight}, fps : {0, 10, 30}]
ExportDurations == {0, 100, 250}

\* the frame an export Renderer returns: width x height, YUV420P
\* (black_frame_yuv, or a frame of Decoder::open_for_export)
ExportFrame(width, height, timestamp_ms) ==
    [width |-> width, height |-> height, timestamp_ms |-> timestamp_ms, is_yuv |-> TRUE,
     len |-> width * height + ((width \div 2) * (height \div 2)) * 2]

\* VideoEncoder::new: avcodec_open2 refuses a video encoder without
\* dimensions or with a time base 1000 / fps_num that is not positive
\* (fps_num = (fps * 1000.0) as i32)
EncoderOpens(config) == config.width > 0 /\ config.height > 0 /\ config.fps * 1000 > 0

VideoEncoderNew(config) ==
    [width |-> config.width, height |-> config.height, frame_count |-> 0,
     sent |-> << >>, finish_calls |-> 0, trailer |-> FALSE]

\* VideoEncoder::encode_frame(&frame.data, frame.width, frame.height): sent is
\* the PTS of the frames given to the encoder
EncodeFrame(e, frame, send_ok) ==
    IF frame.width # e.width \/ frame.height # e.height
    THEN [enc |-> e, err |-> Some("dimensions_mismatch")]
    ELSE IF frame.len # frame.width * frame.height * 4
    THEN [enc |-> e, err |-> Some("invalid_data_size")]
    ELSE IF ~send_ok
    THEN [enc |-> [e EXCEPT !.frame_count = @ + 1], err |-> Some("send_frame")]
    ELSE [enc |-> [e EXCEPT !.frame_count = @ + 1, !.sent = Append(@, e.frame_count)],
          err |-> None]

\* VideoEncoder::finish: flush, then the trailer
EncoderFinish(e, ok) == [e EXCEPT !.finish_calls = @ + 1, !.trailer = ok]

\* (frame_index as f64 * frame_duration_ms) as i64, frame_duration_ms = 1000.0 / fps
ExportTimestampMs(frame_index, fps) == (frame_index * 1000) \div fps

\* ((duration_ms as f64) / frame_duration_ms).ceil() as i64
TotalFrames(duration_ms, fps) == (duration_ms * fps + 999) \div 1000

\* ((frame_index + 1) * 100 / total_frames).min(99)
Pct(frame_index, total_frames) ==
    IF ((frame_index + 1) * 100) \div total_frames < 99
    THEN ((frame_index + 1) * 100) \div total_frames ELSE 99

\* a timeline of any length is exported
IsEmptyNever(duration_ms) == FALSE

\* line 82: duration_ms <= 0
IsEmpty(duration_ms) == duration_ms <= 0

\* a thread end that reports 100 whatever the result
ThreadEndsAlways100(j, result) ==
    [j EXCEPT !.progress = 100,
              !.error = IF IsSome(result) THEN result ELSE @,
              !.pc = "store_finished"]

\* a thread end that stores finished first, the outcome not yet published
ThreadEndsFinishedFirst(j, result) ==
    [j EXCEPT !.finished = TRUE, !.pc = "store_finished"]

\* ExportJob::start, lines 45-56: the match on the result of export_thread;
\* result is None for Ok(()) and Some(msg) for Err(msg). The store of
\* finished (line 57) is the thread's next step
ThreadEnds(j, result) ==
    [j EXCEPT !.progress = IF IsSome(result) THEN @ ELSE 100,
              !.error = IF IsSome(result) THEN result ELSE @,
              !.pc = "store_finished"]

\* ExportJob::start, lines 35-38 and 59
ExportInit ==
    \E config \in ExportConfigs : \E d \in ExportDurations :
        xjob = [config |-> config, duration_ms |-> d, progress |-> 0, cancelled |-> FALSE,
                finished |-> FALSE, error |-> None, pc |-> "begin", frame_index |-> 0,
                total_frames |-> 0, encoder |-> None, rendered |-> << >>, faults |-> 0,
                cancel_pc |-> ""]

\* export_thread, lines 76-111: the duration, the encoder, the header
ExportBegin ==
    /\ xjob.pc = "begin"
    /\ \E lock_ok, new_ok, header_ok \in BOOLEAN :
        IF ~lock_ok
        THEN xjob' = ThreadEnds([xjob EXCEPT !.faults = @ + 1], Some("timeline_lock"))
        ELSE IF IsEmpty(xjob.duration_ms)
        THEN new_ok /\ header_ok /\ xjob' = ThreadEnds(xjob, Some("timeline_empty"))
        ELSE IF ~EncoderOpens(xjob.config)
        THEN new_ok /\ header_ok /\ xjob' = ThreadEnds(xjob, Some("encoder_new"))
        ELSE IF ~new_ok
        THEN header_ok /\ xjob' = ThreadEnds([xjob EXCEPT !.faults = @ + 1], Some("encoder_new"))
        ELSE IF ~header_ok
        THEN xjob' = ThreadEnds([xjob EXCEPT !.faults = @ + 1,
                                             !.encoder = Some(VideoEncoderNew(xjob.config))],
                                Some("write_header"))
        ELSE xjob' = [xjob EXCEPT !.encoder = Some(VideoEncoderNew(xjob.config)),
                                  !.total_frames = TotalFrames(xjob.duration_ms, xjob.config.fps),
                                  !.frame_index = 0, !.pc = "check"]

\* a frame loop that never looks at the cancel flag
ExportCheckNoCancel ==
    /\ xjob.pc = "check"
    /\ \E finish_ok \in BOOLEAN :
        LET j1 == [xjob EXCEPT !.encoder = Some(EncoderFinish(Unwrap(@), finish_ok)),
                               !.faults = IF finish_ok THEN @ ELSE @ + 1]
        IN  IF ExportTimestampMs(xjob.frame_index, xjob.config.fps) >= xjob.duration_ms
            THEN xjob' = ThreadEnds(j1, IF finish_ok THEN None ELSE Some("finish"))
            ELSE finish_ok /\ xjob' = [xjob EXCEPT !.pc = "frame"]

\* export_thread, lines 114-126 and 148-150: the cancel flag; then the end of
\* the timeline, where the loop breaks and encoder.finish()? gives the result
ExportCheck ==
    /\ xjob.pc = "check"
    /\ \E finish_ok \in BOOLEAN :
        LET j1 == [xjob EXCEPT !.encoder = Some(EncoderFinish(Unwrap(@), finish_ok)),
                               !.faults = IF finish_ok THEN @ ELSE @ + 1]
        IN  IF xjob.cancelled
            THEN xjob' = ThreadEnds(j1, Some("cancelled"))
            ELSE IF ExportTimestampMs(xjob.frame_index, xjob.config.fps) >= xjob.duration_ms
            THEN xjob' = ThreadEnds(j1, IF finish_ok THEN None ELSE Some("finish"))
            ELSE finish_ok /\ xjob' = [xjob EXCEPT !.pc = "frame"]

\* export_thread, lines 128-139: render, encode, progress, frame_index += 1
ExportFrameStep ==
    /\ xjob.pc = "frame"
    /\ \E render_ok, send_ok \in BOOLEAN :
        LET ts == ExportTimestampMs(xjob.frame_index, xjob.config.fps)
            frame == ExportFrame(xjob.config.width, xjob.config.height, ts)
            j1 == [xjob EXCEPT !.rendered = Append(@, [ts |-> ts, cancelled |-> xjob.cancelled])]
            x == EncodeFrame(Unwrap(xjob.encoder), frame, send_ok)
        IN  IF ~render_ok
            THEN send_ok /\ xjob' = ThreadEnds([xjob EXCEPT !.faults = @ + 1], Some("render"))
            ELSE IF IsSome(x.err)
            THEN /\ (send_ok \/ x.err = Some("send_frame"))
                 /\ xjob' = ThreadEnds([j1 EXCEPT !.encoder = Some(x.enc),
                                                  !.faults = IF send_ok THEN @ ELSE @ + 1],
                                       x.err)
            ELSE xjob' = [j1 EXCEPT !.encoder = Some(x.enc),
                                    !.progress = Pct(xjob.frame_index, xjob.total_frames),
                                    !.frame_index = @ + 1, !.pc = "check"]

\* ExportJob::start, line 57: f.store(true), the last step of the thread
ExportStoreFinished ==
    /\ xjob.pc = "store_finished"
    /\ xjob' = [xjob EXCEPT !.finished = TRUE, !.pc = "done"]

\* ExportJob::cancel
ExportCancel ==
    /\ ~xjob.cancelled
    /\ xjob' = [xjob EXCEPT !.cancelled = TRUE, !.cancel_pc = xjob.pc]

(***************************************************************************)
(*              AudioDecoder (encoding/audio_decoder.rs)                   *)
(*                                                                         *)
(* The stream is a list of audio frames numbered 0..frames-1, frame k      *)
(* with PTS k * frame_samples in the time base 1 / rate, and the           *)
(* resampler gives frame_samples * 2 interleaved output samples for each.  *)
(* Output samples are named by their index in the whole stream, so a run   *)
(* of samples is a range [from, to): leftover_samples is such a range, and *)
(* what decode_range returns is `real` samples from index `first` on,      *)
(* followed by `pad` zeros.  A duration is the fraction num / den of a     *)
(* millisecond count.  The codec gives one frame per packet; whether the   *)
(* container seek fails is an input of the call.                           *)
(***************************************************************************)
OUTPUT_SAMPLE_RATE == 48000
OUTPUT_CHANNELS == 2
MaxAudioCalls == 4

AudioMedia == [rate |-> 48000, frame_samples |-> 1024, frames |-> 14]

\* the chunk of the playback fill thread (100 ms), and a video frame at 30 and
\* at 60 fps
AudioDurations == {[num |-> 100, den |-> 1], [num |-> 1000, den |-> 30],
                   [num |-> 1000, den |-> 60]}
AudioOrigins == {0, 50}

\* AudioDecoder::open, lines 91-104
AudioDecoderOpen(m) ==
    [media |-> m, current_pos_ms |-> 0, next_frame |-> 0,
     leftover_samples |-> [from |-> 0, to |-> 0]]

\* ((duration_ms / 1000.0) * sample_rate as f64) as usize * channels as usize
NumSamples(dur) == ((dur.num * OUTPUT_SAMPLE_RATE) \div (dur.den * 1000)) * OUTPUT_CHANNELS

\* duration_ms.ceil() as i64
DurationCeil(dur) == (dur.num + dur.den - 1) \div dur.den

\* pts_to_ms of the PTS of frame k
AudioFrameMs(m, k) == (k * m.frame_samples * 1000) \div m.rate

\* check_skip: the number of output samples of frame k to pass over, the
\* whole frame included (SkipEntire), and whether the skipping goes on
CheckSkip(m, k, target_ms) ==
    LET frame_ms == AudioFrameMs(m, k)
        frame_dur_ms == (m.frame_samples * 1000) \div m.rate
        len == m.frame_samples * OUTPUT_CHANNELS
        skip_count == ((target_ms - frame_ms) * OUTPUT_SAMPLE_RATE * OUTPUT_CHANNELS) \div 1000
    IN  IF frame_ms + frame_dur_ms <= target_ms THEN [skip |-> len, active |-> TRUE]
        ELSE IF frame_ms < target_ms
        THEN [skip |-> IF skip_count < len THEN skip_count ELSE len, active |-> FALSE]
        ELSE [skip |-> 0, active |-> FALSE]

\* input_ctx.seek(ts_us, ..ts_us): the demuxer lands on the last frame whose
\* time is not after timestamp_ms
AudioSeekLanding(m, timestamp_ms) ==
    LET at == {k \in 0..(m.frames - 1) : AudioFrameMs(m, k) <= timestamp_ms}
    IN  IF at = {} THEN 0 ELSE CHOOSE k \in at : \A j \in at : j <= k

\* the while loop of decode_range, lines 208-256: frames are read from frame k
\* on until `have` reaches num_samples or the stream ends; first is the index
\* of the first sample of the result (-1: none yet)
RECURSIVE DecodeFrames(_, _, _, _, _, _, _)
DecodeFrames(m, k, skip_active, target_ms, first, have, num_samples) ==
    IF have >= num_samples \/ k >= m.frames
    THEN [next_frame |-> k, first |-> first, have |-> have]
    ELSE LET len == m.frame_samples * OUTPUT_CHANNELS
             c == IF skip_active THEN CheckSkip(m, k, target_ms)
                  ELSE [skip |-> 0, active |-> FALSE]
         IN  DecodeFrames(m, k + 1, c.active, target_ms,
                          IF first < 0 /\ c.skip < len THEN k * len + c.skip ELSE first,
                          have + (len - c.skip), num_samples)

\* AudioDecoder::decode_range.  The result: the decoder afterwards, Ok or Err,
\* the samples returned, whether the call did seek, and the leftover samples
\* the seek threw away.
DecodeRange(d, start_ms, dur, seek_ok) ==
    LET num_samples == NumSamples(dur)
        did_seek == start_ms < d.current_pos_ms \/ start_ms > d.current_pos_ms + 1000
        dropped == IF did_seek THEN d.leftover_samples.to - d.leftover_samples.from ELSE 0
        d1 == IF did_seek
              THEN [d EXCEPT !.next_frame = AudioSeekLanding(d.media, start_ms),
                             !.leftover_samples = [from |-> 0, to |-> 0],
                             !.current_pos_ms = start_ms]
              ELSE d
        lo == d1.leftover_samples
        take == IF lo.to - lo.from < num_samples THEN lo.to - lo.from ELSE num_samples
        x == DecodeFrames(d1.media, d1.next_frame, did_seek, start_ms,
                          IF take > 0 THEN lo.from ELSE -1, take, num_samples)
        end_ms == start_ms + DurationCeil(dur)
    IN  IF did_seek /\ ~seek_ok
        THEN [dec |-> d, ok |-> FALSE, first |-> -1, real |-> 0, pad |-> 0,
              did_seek |-> TRUE, dropped |-> 0]
        ELSE IF take >= num_samples
        THEN [dec |-> [d1 EXCEPT !.leftover_samples = [from |-> lo.from + take, to |-> lo.to],
                                 !.current_pos_ms = end_ms],
              ok |-> TRUE, first |-> lo.from, real |-> num_samples, pad |-> 0,
              did_seek |-> did_seek, dropped |-> dropped]
        ELSE IF x.have > num_samples
        THEN [dec |-> [d1 EXCEPT !.leftover_samples = [from |-> x.first + num_samples,
                                                      to |-> x.first + x.have],
                                 !.next_frame = x.next_frame,
                                 !.current_pos_ms = end_ms],
              ok |-> TRUE, first |-> x.first, real |-> num_samples, pad |-> 0,
              did_seek |-> did_seek, dropped |-> dropped]
        ELSE [dec |-> [d1 EXCEPT !.leftover_samples = [from |-> 0, to |-> 0],
                                 !.next_frame = x.next_frame,
                                 !.current_pos_ms = end_ms],
              ok |-> TRUE, first |-> x.first, real |-> x.have, pad |-> num_samples - x.have,
              did_seek |-> did_seek, dropped |-> dropped]

(***************************************************************************)
(* One AudioDecoder and a caller that asks for consecutive ranges, as      *)
(* AudioMixer::mix_range does for the playback fill thread and for the     *)
(* export: a sequence of calls of one duration from an origin, call i at   *)
(* the whole millisecond origin + (i * duration) as i64.  adec holds the   *)
(* decoder, the sequence (origin, dur, i: the calls made) and the last     *)
(* call: its result, and the leftover samples that stood before it.        *)
(***************************************************************************)
ADecLastNone == [op |-> "open", i |-> 0, start_ms |-> 0, ok |-> TRUE, first |-> -1, real |-> 0,
                 pad |-> 0, did_seek |-> FALSE, dropped |-> 0,
                 before |-> [from |-> 0, to |-> 0]]

AudioDecoderInit ==
    adec = [dec |-> AudioDecoderOpen(AudioMedia), origin |-> 0,
            dur |-> [num |-> 100, den |-> 1], i |-> 0, last |-> ADecLastNone]

\* the call: decode_range(start_ms, dur) as call number i of its sequence
AudioCall(origin, dur, i, seek_ok) ==
    LET start_ms == origin + (i * dur.num) \div dur.den
        x == DecodeRange(adec.dec, start_ms, dur, seek_ok)
    IN  /\ (~x.did_seek => seek_ok)
        /\ adec' = [dec |-> x.dec, origin |-> origin, dur |-> dur, i |-> i + 1,
                    last |-> [op |-> "decode_range", i |-> i, start_ms |-> start_ms,
                              ok |-> x.ok, first |-> x.first, real |-> x.real,
                              pad |-> x.pad, did_seek |-> x.did_seek,
                              dropped |-> x.dropped,
                              before |-> adec.dec.leftover_samples]]

\* the first call of a sequence
DecodeRangeFirst ==
    \E origin \in AudioOrigins : \E dur \in AudioDurations : \E seek_ok \in BOOLEAN :
        AudioCall(origin, dur, 0, seek_ok)

\* the next call of the sequence, after a call that returned Ok
DecodeRangeNext ==
    /\ adec.i >= 1 /\ adec.i < MaxAudioCalls
    /\ adec.last.ok
    /\ \E seek_ok \in BOOLEAN : AudioCall(adec.origin, adec.dur, adec.i, seek_ok)

(***************************************************************************)
(*          Mutex poison at the FFI boundary (ffi/*.rs and below)          *)
(*                                                                         *)
(* A std::sync::Mutex is poisoned when a thread panics while it holds the  *)
(* guard, and stays so: no code of the engine clears the flag.  lock() on  *)
(* a poisoned mutex is Err(PoisonError), which into_inner() turns into     *)
(* the guard; try_lock() is Err for a poisoned and for a held mutex.  mx   *)
(* holds the set of poisoned mutexes, the part of each inner value that    *)
(* the operations below read or write, and the last operation: its return  *)
(* code, the mutexes it went through, and whether it did its work on the   *)
(* inner value (done).  Operations run one at a time here, so no mutex is  *)
(* held by another thread when one starts.                                 *)
(***************************************************************************)
EngineMutexes == {"Timeline", "Renderer", "PlaybackEngine", "FrameQueue", "RingBuffer"}
MaxTracks == 2

\* Mutex::lock
MutexLock(poisoned, m) == IF m \in poisoned THEN "poisoned" ELSE "ok"

\* Mutex::try_lock with no other holder
MutexTryLock(poisoned, m) == IF m \in poisoned THEN "err" ELSE "ok"

MxLastNone == [op |-> "create", code |-> "Success", mutexes |-> {}, done |-> TRUE]

MutexInit ==
    mx = [poisoned |-> {}, video_tracks |-> 0, active |-> FALSE, fill_loop |-> "none",
          last |-> MxLastNone]

\* a thread panics while it holds the guard of m
HolderPanics ==
    \E m \in EngineMutexes :
        /\ m \notin mx.poisoned
        /\ mx' = [mx EXCEPT !.poisoned = @ \cup {m},
                            !.last = [op |-> "panic", code |-> "none", mutexes |-> {m},
                                      done |-> FALSE]]

\* timeline_add_video_track: Err(_) => return ERROR_INVALID_PARAM
TimelineAddVideoTrack ==
    /\ mx.video_tracks < MaxTracks
    /\ IF MutexLock(mx.poisoned, "Timeline") = "ok"
       THEN mx' = [mx EXCEPT !.video_tracks = @ + 1,
                             !.last = [op |-> "timeline_add_video_track",
                                       code |-> "ERROR_SUCCESS",
                                       mutexes |-> {"Timeline"}, done |-> TRUE]]
       ELSE mx' = [mx EXCEPT !.last = [op |-> "timeline_add_video_track",
                                       code |-> "ERROR_INVALID_PARAM",
                                       mutexes |-> {"Timeline"}, done |-> FALSE]]

\* timeline_get_video_track_count
TimelineGetVideoTrackCount ==
    IF MutexLock(mx.poisoned, "Timeline") = "ok"
    THEN mx' = [mx EXCEPT !.last = [op |-> "timeline_get_video_track_count",
                                    code |-> "ERROR_SUCCESS",
                                    mutexes |-> {"Timeline"}, done |-> TRUE]]
    ELSE mx' = [mx EXCEPT !.last = [op |-> "timeline_get_video_track_count",
                                    code |-> "ERROR_INVALID_PARAM",
                                    mutexes |-> {"Timeline"}, done |-> FALSE]]

\* playback_engine_start: the guard is taken also from a poisoned mutex
\* (poisoned.into_inner()), and PlaybackEngine::start runs: the queue is
\* cleared if let Ok(..) = frame_queue.lock(), and the fill loop is spawned
PlaybackEngineStart ==
    mx' = [mx EXCEPT !.active = TRUE, !.fill_loop = "running",
                     !.last = [op |-> "playback_engine_start", code |-> "Success",
                               mutexes |-> {"PlaybackEngine"}, done |-> TRUE]]

\* fill_loop: if queue.lock().is_err() { break; }
FillLoopChecksQueue ==
    /\ mx.fill_loop = "running"
    /\ mx' = [mx EXCEPT !.fill_loop = IF MutexLock(mx.poisoned, "FrameQueue") = "ok"
                                      THEN "running" ELSE "exited",
                        !.last = [op |-> "fill_loop", code |-> "none",
                                  mutexes |-> {"FrameQueue"},
                                  done |-> MutexLock(mx.poisoned, "FrameQueue") = "ok"]]

\* playback_engine_stop, with poisoned.into_inner() as well
PlaybackEngineStop ==
    mx' = [mx EXCEPT !.active = FALSE, !.fill_loop = "none",
                     !.last = [op |-> "playback_engine_stop", code |-> "Success",
                               mutexes |-> {"PlaybackEngine"}, done |-> TRUE]]

\* playback_engine_try_get_frame: engine_mutex.try_lock() Err(_) is reported
\* as busy, and try_get_frame is frame_queue.lock().ok()?.peek_nearest(..)
PlaybackEngineTryGetFrame ==
    mx' = [mx EXCEPT !.last =
              [op |-> "playback_engine_try_get_frame", code |-> "Success",
               mutexes |-> {"PlaybackEngine", "FrameQueue"},
               done |-> /\ MutexTryLock(mx.poisoned, "PlaybackEngine") = "ok"
                        /\ MutexLock(mx.poisoned, "FrameQueue") = "ok"]]

\* renderer_render_frame: poisoned.into_inner() on the Renderer mutex, and
\* in render_frame self.timeline.try_lock() Err(_) gives the held or a black
\* frame without reading the timeline
RendererRenderFrame ==
    mx' = [mx EXCEPT !.last =
              [op |-> "renderer_render_frame", code |-> "Success",
               mutexes |-> {"Renderer", "Timeline"},
               done |-> MutexTryLock(mx.poisoned, "Timeline") = "ok"]]

\* the output callback: buffer.try_lock() Err(_) gives silence
AudioCallbackLocks ==
    mx' = [mx EXCEPT !.last =
              [op |-> "audio_callback", code |-> "none", mutexes |-> {"RingBuffer"},
               done |-> MutexTryLock(mx.poisoned, "RingBuffer") = "ok"]]

(***************************************************************************)
(*        Clip effects and the frame cache (renderer.rs, ffi/renderer.rs)  *)
(*                                                                         *)
(* The preview Renderer in scrub mode behind its mutex.  A render is the   *)
(* two steps of renderer_render_frame: lock() is granted, and render_frame *)
(* runs and the guard is dropped; renderer_set_clip_effects may be called  *)
(* in between.  Effect parameters are numbered, 0 being the default ones   *)
(* (all sliders at 0, for which set_clip_effects removes the entry and     *)
(* render_frame applies nothing).  A frame tells what it was made of: the  *)
(* file, the source time, the clip it was decoded for and the parameters   *)
(* applied to it.  `wanted` keeps the parameters the host passed for each  *)
(* clip in its last renderer_set_clip_effects call.  Every decode gives a  *)
(* frame, and the few frames here never fill the cache.                    *)
(***************************************************************************)
\* two clips cut from the same file, and a clip of another file
FxClips == {[id |-> 1, file_path |-> "a.mp4"], [id |-> 2, file_path |-> "a.mp4"],
            [id |-> 3, file_path |-> "b.mp4"]}
FxClipIds == {c.id : c \in FxClips}
FxSourceTimes == {0, 33}
FxParams == {0, 1}

FxLastNone == [op |-> "new", clip |-> 0, source_time_ms |-> 0, via |-> "", wanted |-> 0,
               applied |-> FALSE,
               frame |-> [file_path |-> "", source_time_ms |-> 0, clip |-> 0, params |-> 0]]

\* Renderer::new: no effects, an empty frame cache
EffectsInit ==
    fx = [clip_effects |-> [c \in FxClipIds |-> 0], frame_cache |-> {}, lock |-> "free",
          pending |-> [clip |-> 0, source_time_ms |-> 0, wanted |-> 0],
          wanted |-> [c \in FxClipIds |-> 0], last |-> FxLastNone]

\* FrameCache::get: e.file_path == file_path && e.source_time_ms == source_time_ms
FxCacheGet(entries, clip, source_time_ms) ==
    {f \in entries : f.file_path = clip.file_path /\ f.source_time_ms = source_time_ms}

\* Renderer::set_clip_effects
SetClipEffects(f, clip_id, params) ==
    [f EXCEPT !.clip_effects[clip_id] = params, !.frame_cache = {}]

\* renderer_render_frame: renderer_mutex.lock() is granted
FxRenderBegin ==
    \E clip \in FxClips : \E s \in FxSourceTimes :
        /\ fx.lock = "free"
        /\ fx' = [fx EXCEPT !.lock = "render",
                            !.pending = [clip |-> clip.id, source_time_ms |-> s,
                                         wanted |-> fx.wanted[clip.id]],
                            !.last = [FxLastNone EXCEPT !.op = "lock"]]

\* render_frame on the single clip: the cached frame of (file_path,
\* source_time_ms) if there is one, else a decoded frame with the clip's
\* effects applied, which is put into the cache; the guard is dropped
FxRenderEnd ==
    /\ fx.lock = "render"
    /\ \E clip \in {c \in FxClips : c.id = fx.pending.clip} :
         LET s == fx.pending.source_time_ms
             hit == FxCacheGet(fx.frame_cache, clip, s)
             rendered == [file_path |-> clip.file_path, source_time_ms |-> s,
                          clip |-> clip.id, params |-> fx.clip_effects[clip.id]]
         IN  IF hit # {}
             THEN \E f \in hit :
                    fx' = [fx EXCEPT !.lock = "free",
                                     !.last = [op |-> "render", clip |-> clip.id,
                                               source_time_ms |-> s, via |-> "cache_hit",
                                               wanted |-> fx.pending.wanted,
                                               applied |-> FALSE, frame |-> f]]
             ELSE fx' = [fx EXCEPT !.lock = "free",
                                   !.frame_cache = @ \cup {rendered},
                                   !.last = [op |-> "render", clip |-> clip.id,
                                             source_time_ms |-> s, via |-> "decoded",
                                             wanted |-> fx.pending.wanted,
                                             applied |-> FALSE, frame |-> rendered]]

\* renderer_set_clip_effects: try_lock(); Err(_) => Success, nothing done
RendererSetClipEffects ==
    \E clip_id \in FxClipIds : \E params \in FxParams :
        LET f1 == [fx EXCEPT !.wanted[clip_id] = params]
            f2 == IF fx.lock = "free" THEN SetClipEffects(f1, clip_id, params) ELSE f1
        IN  fx' = [f2 EXCEPT !.last = [FxLastNone EXCEPT !.op = "set_clip_effects",
                                          !.clip = clip_id, !.wanted = params,
                                          !.applied = (fx.lock = "free")]]

(***************************************************************************)
(*                          The specifications                             *)
(***************************************************************************)
FQParked    == frame_queue = << >> /\ fq_pushed = 0 /\ fq_last = FQNone
CacheParked == /\ cache = FrameCacheNew(CacheN, CacheBigBytes)
               /\ cache_last = CacheLastNone
               /\ use_order = << >>
               /\ byte_evicted = FALSE
RenderParked == /\ renderer = RendererNew /\ tl_held = FALSE /\ r_last = RLastNone
                /\ timeline = << >>
PEParked    == /\ fill_thread = None
               /\ cancelled = FALSE
               /\ start_time_ms = 0
               /\ current_prefetch_ms = 0
               /\ last_requested_ms = 0
               /\ threads = [s \in Sessions |-> ThreadNone]
               /\ caller = CallerIdle
               /\ pe_last = PELastNone
               /\ world = [clip_end |-> 0, faults |-> 0]
AudioParked == /\ ring = RingNew
               /\ buf_lock = "free"
               /\ is_playing = FALSE
               /\ a_cancelled = FALSE
               /\ prefill_done = FALSE
               /\ afill = AFillNone
               /\ a_waited = 0
               /\ acb = CbIdle
               /\ acaller = "none"
               /\ a_last = ALastNone

DecoderParked == /\ decoder = DecoderOpen(CHOOSE m \in Medias : TRUE)
                 /\ dec_last = DecLastNone
                 /\ dec_faults = 0
                 /\ dec_eof = None
                 /\ dec_produced = FALSE

ExportParked == xjob = [pc |-> "none"]
AudioDecoderParked == adec = [i |-> 0]
MutexParked == mx = [poisoned |-> {}]
EffectsParked == fx = [lock |-> "none"]
MoreParked == ExportParked /\ AudioDecoderParked /\ MutexParked /\ EffectsParked
EngineParked == /\ FQParked /\ CacheParked /\ RenderParked /\ PEParked /\ AudioParked
                /\ DecoderParked
engineVars == <<fqVars, cacheVars, rVars, peVars, aVars, decVars>>

InitFQ == FQInit /\ CacheParked /\ RenderParked /\ PEParked /\ AudioParked /\ DecoderParked /\ MoreParked
\* a queue operation made from outside the engine's API
FQOthers ==
    /\ pe_last' = PELastNone
    /\ UNCHANGED <<fill_thread, cancelled, start_time_ms, current_prefetch_ms,
                   last_requested_ms, threads, caller, world, cacheVars, rVars, aVars, decVars, moreVars>>

\* try_get_frame of an engine whose queue the queue operations fill
FQEngine == fq_last' = FQNone /\ UNCHANGED <<fq_pushed, cacheVars, rVars, aVars, decVars, moreVars>>

NextFQ ==
    \/ FQPush /\ FQOthers
    \/ FQPop /\ FQOthers
    \/ FQClear /\ FQOthers
    \/ FQPeek /\ FQOthers
    \/ TryGetStore /\ FQEngine
    \/ TryGetPeek /\ FQEngine
SpecFQ == InitFQ /\ [][NextFQ]_vars

InitCache == CacheInit /\ FQParked /\ RenderParked /\ PEParked /\ AudioParked /\ DecoderParked /\ MoreParked
NextCache ==
    \/ CachePutStep /\ UNCHANGED <<fqVars, rVars, peVars, aVars, decVars, moreVars>>
    \/ CacheGetStep /\ UNCHANGED <<fqVars, rVars, peVars, aVars, decVars, moreVars>>
    \/ CacheClearStep /\ UNCHANGED <<fqVars, rVars, peVars, aVars, decVars, moreVars>>
SpecCache == InitCache /\ [][NextCache]_vars

InitRender == RenderInit /\ FQParked /\ CacheParked /\ PEParked /\ AudioParked /\ DecoderParked /\ MoreParked
NextRender ==
    \/ TimelineAcquire /\ UNCHANGED <<fqVars, cacheVars, peVars, aVars, decVars, moreVars>>
    \/ TimelineRelease /\ UNCHANGED <<fqVars, cacheVars, peVars, aVars, decVars, moreVars>>
    \/ RenderFrameStep /\ UNCHANGED <<fqVars, cacheVars, peVars, aVars, decVars, moreVars>>
    \/ SetPlaybackModeStep /\ UNCHANGED <<fqVars, cacheVars, peVars, aVars, decVars, moreVars>>
    \/ ClearCacheStep /\ UNCHANGED <<fqVars, cacheVars, peVars, aVars, decVars, moreVars>>
SpecRender == InitRender /\ [][NextRender]_vars

InitCompose == ComposeInit /\ FQParked /\ CacheParked /\ PEParked /\ AudioParked
               /\ DecoderParked /\ MoreParked
ComposeOthers == UNCHANGED <<fqVars, cacheVars, peVars, aVars, decVars, moreVars>>
NextCompose ==
    \/ TimelineAcquire /\ ComposeOthers
    \/ TimelineRelease /\ ComposeOthers
    \/ ComposeRenderStep /\ ComposeOthers
    \/ SetPlaybackModeStep /\ ComposeOthers
    \/ ClearCacheStep /\ ComposeOthers
SpecCompose == InitCompose /\ [][NextCompose]_vars

\* render_frame calls with tracks muted and unmuted in between
NextMute ==
    \/ ComposeRenderStep /\ ComposeOthers
    \/ TimelineSetTrackMuted /\ ComposeOthers
SpecMute == InitCompose /\ [][NextMute]_vars

InitPE == PEInit /\ fq_pushed = 0 /\ fq_last = FQNone /\ CacheParked /\ RenderParked
          /\ AudioParked /\ DecoderParked /\ MoreParked
PEOthers == UNCHANGED <<fq_pushed, fq_last, cacheVars, rVars, aVars, decVars, moreVars>>

NextPE ==
    \/ CallStart /\ PEOthers
    \/ CallStop /\ PEOthers
    \/ StopJoin /\ PEOthers
    \/ StopClear /\ PEOthers
    \/ StartReset /\ PEOthers
    \/ StartClear /\ PEOthers
    \/ StartSpawn /\ PEOthers
    \/ WarmupPoll /\ PEOthers
    \/ TryGetStore /\ PEOthers
    \/ TryGetPeek /\ PEOthers
    \/ \E s \in Sessions : FillBegin(s) /\ PEOthers
    \/ \E s \in Sessions : FillCheck(s) /\ PEOthers
    \/ \E s \in Sessions : FillPace(s) /\ PEOthers
    \/ \E s \in Sessions : FillRender(s) /\ PEOthers
    \/ \E s \in Sessions : FillRetry(s) /\ PEOthers
SpecPE == InitPE /\ [][NextPE]_vars

\* the scheduler runs every thread that can take a step: the fill threads, and
\* the caller while it is inside start() or stop()
FairSpecPE ==
    /\ SpecPE
    /\ WF_vars(CallerRuns /\ PEOthers)
    /\ \A s \in Sessions : WF_vars(FillThread(s) /\ PEOthers)

InitAudio == AudioInit /\ FQParked /\ CacheParked /\ RenderParked /\ PEParked
             /\ DecoderParked /\ MoreParked
AudioOthers == UNCHANGED <<fqVars, cacheVars, rVars, peVars, decVars, moreVars>>

NextAudio ==
    \/ AFillPrefillCheck /\ AudioOthers
    \/ AFillTimeline("p1_tl", "p1_check", "p1_lock") /\ AudioOthers
    \/ AFillLock("p1_lock", "p1_push") /\ AudioOthers
    \/ AFillPush("p1_push", "p1_check", TRUE) /\ AudioOthers
    \/ AFillCheck /\ AudioOthers
    \/ AFillPlaying /\ AudioOthers
    \/ AFillTryLock /\ AudioOthers
    \/ AFillLen /\ AudioOthers
    \/ AFillTimeline("p2_tl", "p2_check", "p2_lock") /\ AudioOthers
    \/ AFillLock("p2_lock", "p2_push") /\ AudioOthers
    \/ AFillPush("p2_push", "p2_check", FALSE) /\ AudioOthers
    \/ CbBegin /\ AudioOthers
    \/ CbTryLock /\ AudioOthers
    \/ CbFill /\ AudioOthers
    \/ AStartWait /\ AudioOthers
    \/ ASetPlaying(FALSE) /\ AudioOthers
    \/ ASetPlaying(TRUE) /\ AudioOthers
    \/ AStopCancel /\ AudioOthers
    \/ AStopPlaying /\ AudioOthers
    \/ AStopJoin /\ AudioOthers
    \/ AStopLock /\ AudioOthers
    \/ AStopClear /\ AudioOthers
SpecAudio == InitAudio /\ [][NextAudio]_vars

\* the thread inside start() keeps running: its wait loop takes its turns
FairSpecAudio == SpecAudio /\ WF_vars(AStartWait /\ AudioOthers)

\* the steps of the fill thread, and those of a caller inside stop()
AFillThread ==
    \/ AFillPrefillCheck
    \/ AFillTimeline("p1_tl", "p1_check", "p1_lock")
    \/ AFillPush("p1_push", "p1_check", TRUE)
    \/ AFillCheck \/ AFillPlaying \/ AFillTryLock \/ AFillLen
    \/ AFillTimeline("p2_tl", "p2_check", "p2_lock")
    \/ AFillPush("p2_push", "p2_check", FALSE)
AFillLocks == AFillLock("p1_lock", "p1_push") \/ AFillLock("p2_lock", "p2_push")
AStopRuns == AStopPlaying \/ AStopJoin \/ AStopClear

\* the scheduler runs the fill thread and the thread inside stop(); a
\* callback that holds the buffer returns; a thread blocked in buffer.lock()
\* gets the mutex when it is free again and again
FairSpecStop ==
    /\ SpecAudio
    /\ WF_vars(AFillThread /\ AudioOthers)
    /\ SF_vars(AFillLocks /\ AudioOthers)
    /\ WF_vars(CbFill /\ AudioOthers)
    /\ WF_vars(AStopRuns /\ AudioOthers)
    /\ SF_vars(AStopLock /\ AudioOthers)

\* a playback session whose output stream may fail to build or to start
NextAudioStart ==
    \/ NextAudio
    \/ AStartStreamFails /\ AudioOthers
SpecAudioStart == InitAudio /\ [][NextAudioStart]_vars

RingOthers == UNCHANGED <<fqVars, cacheVars, rVars, peVars, buf_lock, is_playing,
                          a_cancelled, prefill_done, afill, acb, acaller, a_waited,
                          decVars, moreVars>>
InitRing == /\ RingInit /\ FQParked /\ CacheParked /\ RenderParked /\ PEParked
            /\ buf_lock = "free" /\ is_playing = FALSE /\ a_cancelled = FALSE
            /\ prefill_done = FALSE /\ afill = AFillNone /\ acb = CbIdle
            /\ acaller = "none" /\ a_waited = 0 /\ DecoderParked /\ MoreParked
NextRing ==
    \/ RingPushStep /\ RingOthers
    \/ RingFillStep /\ RingOthers
SpecRing == InitRing /\ [][NextRing]_vars

InitDecoder == /\ DecoderInit /\ FQParked /\ CacheParked /\ RenderParked /\ PEParked
               /\ AudioParked /\ MoreParked
DecoderOthers == UNCHANGED <<fqVars, cacheVars, rVars, peVars, aVars, moreVars>>
NextDecoder ==
    \/ DecodeFrameStep /\ DecoderOthers
    \/ DecoderSeekStep /\ DecoderOthers
    \/ SetForwardThresholdStep /\ DecoderOthers
SpecDecoder == InitDecoder /\ [][NextDecoder]_vars

(***************************************************************************)
(*                              Properties                                 *)
(***************************************************************************)

AliveThreads == {s \in Sessions : Alive(s)}

\* C1 (SpecPE): at most one fill thread is alive at a time, and it is the one
\* the engine holds the handle of; start() spawns only after the earlier
\* thread has been joined; once stop() (or the stop inside start()) has
\* returned, no frame of the earlier session is in the queue, and every frame
\* in the queue, and every frame pushed, comes from the current session.
C1_OneFillThread ==
    /\ Cardinality(AliveThreads) <= 1
    /\ \A s \in AliveThreads : fill_thread = Some(s)
    /\ caller.pc \in {"start_reset", "start_clear", "spawn"} => AliveThreads = {}
    /\ (fill_thread = None /\ caller.pc # "stop_clear") => frame_queue = << >>
    /\ caller.pc # "stop_clear" =>
          \A i \in 1..Len(frame_queue) : fill_thread = Some(frame_queue[i].by)
    /\ IsSome(pe_last.fill.pushed) => fill_thread = Some(pe_last.fill.s)

\* the second session is running and has pushed, the first has been joined
C1_Witness ==
    /\ fill_thread = Some(2)
    /\ threads[1].pc = "done"
    /\ Len(frame_queue) > 0
    /\ frame_queue[1].by = 2

\* C2 (SpecPE), as stated: whenever the fill thread renders or pushes a frame,
\* the timestamp it rendered at is no more than 500 ms ahead of the
\* last_requested_ms it read in that loop iteration.
C2_PrefetchBounded ==
    pe_last.fill.kind # "" =>
        pe_last.fill.rendered_ms - pe_last.fill.requested <= AHEAD_LIMIT_MS

\* C3 (SpecPE): no frame whose first pixel's alpha byte is 0x00 is in the
\* queue, and no such frame is pushed.
C3_NoBlackFrameQueued ==
    /\ \A i \in 1..Len(frame_queue) : frame_queue[i].a # 0
    /\ IsSome(pe_last.fill.pushed) => Unwrap(pe_last.fill.pushed).a # 0

\* a retry found a good frame after an artifact, and only that frame was pushed
C3_Witness ==
    /\ pe_last.fill.kind = "retry"
    /\ IsSome(pe_last.fill.pushed)
    /\ world.faults < MaxFaults
    /\ Len(frame_queue) = 1
    /\ frame_queue[1].timestamp_ms = start_time_ms + FRAME_STEP_MS

C4_Returned == pe_last.api.op = "start"

C4_Safe ==
    C4_Returned =>
        /\ caller.pc = "idle"
        /\ pe_last.api.polls <= WARMUP_POLLS
        /\ pe_last.api.warmup_success => Len(frame_queue) > 0
        /\ ~pe_last.api.warmup_success =>
              /\ pe_last.api.polls = WARMUP_POLLS
              /\ IsSome(fill_thread) /\ Alive(Unwrap(fill_thread))
              /\ ~cancelled

C4_PollEnds ==
    (caller.pc = "warmup" /\ Len(frame_queue) > 0 /\ caller' # caller)
        => (caller'.pc = "idle" /\ pe_last'.api.op = "start" /\ pe_last'.api.warmup_success)

\* C4 (FairSpecPE): start() always returns.  The warm-up ends with the first
\* poll that sees a frame in the queue, and otherwise after 500 polls; on
\* timeout start() returns all the same, and the fill thread it spawned is
\* still running and not cancelled.
C4_StartReturns ==
    /\ []C4_Safe
    /\ [][C4_PollEnds]_vars
    /\ (caller.op = "start") ~> C4_Returned

\* start() has returned after 500 polls that found the queue empty
C4_Witness ==
    /\ C4_Returned
    /\ ~pe_last.api.warmup_success
    /\ pe_last.api.polls = WARMUP_POLLS
    /\ frame_queue = << >>

C5_Silent ==
    (a_last.op = "callback" /\ (~a_last.playing \/ a_last.held)) =>
        /\ a_last.zeros = a_last.n
        /\ a_last.copied = 0
        /\ a_last.removed = 0

C5_Consumes ==
    /\ (a_last'.op = "callback" /\ (~a_last'.playing \/ a_last'.held)) => ring' = ring
    /\ (acb' # acb /\ ring' # ring) => (buf_lock = "cb" /\ acb.pc = "locked")
    /\ (acb' # acb /\ buf_lock' = "cb") => buf_lock = "free"

\* C5 (SpecAudio): the output callback never waits: whatever the other threads
\* hold, a callback under way can take its next step.  A callback that finds
\* is_playing false, or the ring-buffer mutex held, writes zeros to the whole
\* output and leaves the ring buffer as it is; samples are removed only by a
\* callback that holds the mutex, which it takes only when the mutex is free.
C5_CallbackNeverWaits ==
    /\ [](acb.pc # "idle" => ENABLED CbStep)
    /\ []C5_Silent
    /\ [][C5_Consumes]_vars

\* the callback met the mutex held while samples were waiting, and wrote silence
C5_Witness ==
    /\ a_last.op = "callback"
    /\ a_last.playing
    /\ a_last.held
    /\ a_last.zeros = a_last.n
    /\ RingLen(ring) > 0
    /\ buf_lock = "fill"

\* C6 (SpecRender): a render_frame that finds the Timeline mutex held returns
\* Ok with the last rendered frame as it is, or a black frame if there is
\* none, and leaves the whole Renderer (decoder cache, frame cache, last
\* rendered frame) unchanged.
C6_TimelineBusy ==
    [][(r_last'.op = "render" /\ r_last'.busy) =>
          /\ renderer' = renderer
          /\ r_last'.ok
          /\ r_last'.frame = Some(LastOrBlack(renderer, r_last'.ts))]_vars

\* a busy render handed out the frame rendered earlier, for another timestamp
C6_Witness ==
    /\ r_last.op = "render"
    /\ r_last.busy
    /\ r_last.frame = renderer.last_rendered_frame
    /\ Unwrap(r_last.frame).timestamp_ms # r_last.ts
    /\ renderer.frame_cache.entries # << >>

\* C7 (SpecRender): render_frame returns Ok whatever the decoder does and
\* whoever holds the Timeline; the frame is one decoded (or blended, or taken
\* from the cache) for this timestamp, or the last rendered frame, or a black
\* frame, and after a skipped or failed decode it is one of the last two.
C7_NeverErr ==
    r_last.op = "render" =>
        LET f == Unwrap(r_last.frame)
            held  == r_last.frame = renderer.last_rendered_frame
            black == f = BlackFor(renderer, r_last.ts)
            fresh == f.kind \in {"decoded", "blend", "blend_yuv"}
                     /\ f.timestamp_ms = r_last.ts
        IN  /\ r_last.ok
            /\ IsSome(r_last.frame)
            /\ fresh \/ held \/ black
            /\ r_last.via \in {"timeline_busy", "FrameSkipped", "EndOfStreamEmpty", "Err"}
                  => held \/ black

\* the decoder could not be opened, nothing had been rendered: Ok(black frame)
C7_Witness ==
    /\ r_last.op = "render"
    /\ r_last.via = "Err"
    /\ r_last.ok
    /\ renderer.last_rendered_frame = None
    /\ Unwrap(r_last.frame).a = 0

C8_PushStep ==
    fq_pushed' # fq_pushed =>
        LET f == Frame(FRAME_STEP_MS * fq_pushed, 255, "decoded")
        IN  frame_queue' = IF Len(frame_queue) = QUEUE_CAPACITY
                           THEN Append(Tail(frame_queue), f)
                           ELSE Append(frame_queue, f)

\* C8 (SpecFQ): the queue never holds more than 16 frames; a push onto a full
\* queue drops the oldest frame only, keeps the others in order and appends
\* the new frame as the newest.
C8_QueueBounded ==
    /\ [](Len(frame_queue) <= QUEUE_CAPACITY)
    /\ [][C8_PushStep]_vars

\* a push onto a full queue has happened: the oldest frame left is not the first
C8_Witness ==
    /\ fq_last.op = "push"
    /\ fq_last.was_full
    /\ Len(frame_queue) = QUEUE_CAPACITY
    /\ frame_queue[1].timestamp_ms > 0

\* what peek_nearest(ts, tol) on q has to return
PeekNearestSpec(q, ts, tol, ret) ==
    LET within == {i \in 1..Len(q) : Abs(q[i].timestamp_ms - ts) <= tol}
    IN  IF within = {} THEN ret = None
        ELSE /\ IsSome(ret)
             /\ \E i \in within :
                  /\ q[i] = Unwrap(ret)
                  /\ \A j \in within :
                        Abs(q[i].timestamp_ms - ts) <= Abs(q[j].timestamp_ms - ts)

C9_Peek ==
    /\ fq_last.op = "peek" =>
          PeekNearestSpec(frame_queue, fq_last.ts, fq_last.tol, fq_last.ret)
    /\ pe_last.api.op = "try_get_frame" =>
          /\ last_requested_ms = pe_last.api.ts
          /\ PeekNearestSpec(frame_queue, pe_last.api.ts, PEEK_TOLERANCE_MS, pe_last.api.ret)

C9_Unchanged ==
    (fq_last'.op = "peek" \/ caller' # caller) => frame_queue' = frame_queue

\* C9 (SpecFQ): peek_nearest(ts, tol) returns a queued frame nearest to ts among
\* those within tol, nothing when none is within tol, and leaves the queue as
\* it is; try_get_frame(ts) stores ts in last_requested_ms and returns
\* peek_nearest(ts, 50).
C9_PeekNearest ==
    /\ []C9_Peek
    /\ [][C9_Unchanged]_vars

\* a peek chose a frame that is not the first of several within the tolerance
C9_Witness ==
    /\ fq_last.op = "peek"
    /\ IsSome(fq_last.ret)
    /\ Abs(frame_queue[1].timestamp_ms - fq_last.ts) <= fq_last.tol
    /\ Unwrap(fq_last.ret) # frame_queue[1]
    /\ Len(frame_queue) = QUEUE_CAPACITY

CacheKeysOf(c) == [i \in 1..Len(c.entries) |->
                      <<c.entries[i].file_path, c.entries[i].source_time_ms>>]

LastUsed(order, n) ==
    IF Len(order) <= n THEN order ELSE SubSeq(order, Len(order) - n + 1, Len(order))

\* C10 (SpecCache): while no entry has been evicted for the byte cap, the
\* cache holds the max_entries most recently used keys (used: put, or hit by a
\* get), oldest first.  So after N + 1 distinct inserts the first key is gone
\* and the other N are there, and a key that a get hit is passed over by the
\* next eviction.
C10_LRU ==
    ~byte_evicted => CacheKeysOf(cache) = LastUsed(use_order, cache.max_entries)

\* a put into the full cache evicted an entry other than the oldest inserted
\* one, which a get had hit before
C10_Witness ==
    /\ cache_last.op = "put"
    /\ Len(cache_last.evicted) = 1
    /\ ~byte_evicted
    /\ IsSome(cache_last.prev_hit)
    /\ CachePosition(cache.entries, Unwrap(cache_last.prev_hit)[1],
                     Unwrap(cache_last.prev_hit)[2]) = CacheN - 1
    /\ cache_last.evicted[1] # Unwrap(cache_last.prev_hit)
    /\ Len(cache.entries) = CacheN

\* aggregate byte count of the stored frames
RECURSIVE SumBytes(_)
SumBytes(entries) ==
    IF entries = << >> THEN 0 ELSE Head(entries).bytes + SumBytes(Tail(entries))

\* C11 (SpecCache): after any sequence of put, get and clear the cache holds at
\* most max_entries entries and the stored frames take at most max_bytes bytes,
\* whatever the size of the frames.
C11_BothCaps ==
    /\ Len(cache.entries) <= cache.max_entries
    /\ SumBytes(cache.entries) <= cache.max_bytes

\* the part that holds: current_bytes is the aggregate, the entry cap is kept,
\* and the byte cap is exceeded only by a single entry that is alone in the cache
C11_CapsButOneOversized ==
    /\ cache.current_bytes = SumBytes(cache.entries)
    /\ Len(cache.entries) <= cache.max_entries
    /\ SumBytes(cache.entries) > cache.max_bytes => Len(cache.entries) = 1

\* C12 (SpecRing): a single push of more samples than the capacity leaves
\* exactly BUFFER_CAPACITY samples stored, the last BUFFER_CAPACITY of the
\* pushed data.
C12_PushOverflow ==
    (a_last.op = "push" /\ a_last.n > BUFFER_CAPACITY) =>
        /\ RingLen(ring) = BUFFER_CAPACITY
        /\ ring.tail = a_last.before.tail + a_last.n
        /\ ring.head = ring.tail - BUFFER_CAPACITY

\* C13 (SpecRing): fill_output with an output of N samples and A samples stored
\* copies the min(A, N) oldest samples in order to the start of the output,
\* removes exactly those, zeroes the other N - min(A, N) output samples, and
\* leaves the samples not consumed in the buffer in order.
C13_FillOutput ==
    a_last.op = "fill_output" =>
        LET A == RingLen(a_last.before)
            m == IF A < a_last.n THEN A ELSE a_last.n
            o == a_last.out
        IN  /\ o.front.count + o.back.count = m
            /\ o.front.count > 0 => o.front.at = 0 /\ o.front.first = a_last.before.head
            /\ o.back.count > 0 => /\ o.back.at = o.front.count
                                   /\ o.back.first = a_last.before.head + o.front.count
            /\ o.zero_from = m /\ o.zeros = a_last.n - m
            /\ ring = [head |-> a_last.before.head + m, tail |-> a_last.before.tail]

\* a fill_output that copied from both slices and still ran short of the output
C13_Witness ==
    /\ a_last.op = "fill_output"
    /\ a_last.out.front.count > 0
    /\ a_last.out.back.count > 0
    /\ a_last.out.zeros > 0
    /\ RingLen(a_last.before) > 0

\* what a decoder gives back when it produces nothing new
FallbackOf(d) ==
    IF IsSome(d.last_decoded_frame)
    THEN [kind |-> "EndOfStream", frame |-> d.last_decoded_frame]
    ELSE [kind |-> "EndOfStreamEmpty", frame |-> None]

C14_Step ==
    (/\ dec_last'.op = "decode_frame"
     /\ IsSome(dec_eof)
     /\ dec_last'.ts >= Unwrap(dec_eof).ts) =>
        /\ dec_last'.attempts = 0
        /\ dec_last'.read = 0
        /\ dec_last'.ret = Unwrap(dec_eof).ret
        /\ dec_last'.ret.kind \in {"EndOfStream", "EndOfStreamEmpty"}
        /\ dec_last'.ret.kind = "EndOfStreamEmpty" <=> ~dec_produced
        /\ decoder' = decoder

\* C14 (SpecDecoder): once a decode_frame scan has run into the end of the
\* container at timestamp T, every later decode_frame(t) with t >= T, with no
\* request below T (decode_frame or seek) in between, seeks nothing, reads
\* no packet and returns what the call that hit the end returned:
\* EndOfStream(f), or EndOfStreamEmpty if the decoder never produced a frame.
C14_EofCached == [][C14_Step]_vars

\* a request beyond a cached end of stream was answered with the frame the
\* end-of-stream scan had returned
C14_Witness ==
    /\ dec_last.op = "decode_frame"
    /\ IsSome(dec_eof)
    /\ dec_last.ts > Unwrap(dec_eof).ts
    /\ dec_last.ret.kind = "EndOfStream"
    /\ dec_last.ret = Unwrap(dec_eof).ret
    /\ dec_last.read = 0

C15_Step ==
    /\ (dec_last'.op = "decode_frame" /\ decoder.state = "Error") =>
          /\ dec_last'.ret = FallbackOf(decoder)
          /\ dec_last'.attempts = 0
          /\ dec_last'.read = 0
          /\ decoder' = decoder
    /\ (dec_last'.op = "decode_frame" /\ dec_last'.ret.kind = "EndOfStreamEmpty") =>
          ~dec_produced

\* C15 (SpecDecoder): a decode_frame call in Error state returns
\* EndOfStream(last decoded frame) if there is one and EndOfStreamEmpty
\* otherwise, attempts no seek, reads no packet and leaves the state Error;
\* decode_frame returns EndOfStreamEmpty only while the decoder has never
\* produced a frame.
C15_ErrorState == [][C15_Step]_vars

\* a call in Error state gave back the last decoded frame
C15_Witness ==
    /\ dec_last.op = "decode_frame"
    /\ dec_last.from = "Error"
    /\ decoder.state = "Error"
    /\ dec_last.ret.kind = "EndOfStream"
    /\ dec_produced

\* the first frame from packet `from` on whose PTS is at least the target less
\* one frame duration (accepted as well without a PTS when lenient), if any
FirstAtTarget(m, from, ts, lenient) ==
    LET ok(i) == IF i \in m.no_pts THEN lenient
                 ELSE i * m.pts_step >= MsToPts(m, ts) - MsToPts(m, FrameDurationMs(m))
        S == {i \in from..(m.frames - 1) : ok(i)}
    IN  IF S = {} THEN None ELSE Some(CHOOSE i \in S : \A j \in S : i <= j)

\* the policy of one decode_frame call that is not short-circuited; reach is
\* how far ahead of the last requested time a request is served without a
\* seek
PolicyStep(reach(_), lenient) ==
    (/\ dec_last'.op = "decode_frame"
     /\ decoder.state # "Error"
     /\ ~(IsSome(decoder.eof_timestamp_ms)
          /\ dec_last'.ts >= Unwrap(decoder.eof_timestamp_ms))) =>
        LET ts  == dec_last'.ts
            gap == ts - decoder.last_timestamp_ms
            fd  == FrameDurationMs(decoder.media)
            got == dec_last'.ret
        IN  IF decoder.state = "Ready" /\ gap >= 0 /\ gap <= reach(decoder)
            THEN /\ dec_last'.attempts = 0
                 /\ got.kind = "Frame" =>
                        IF gap <= 2 * fd
                        THEN Unwrap(got.frame).src = decoder.pos
                        ELSE Some(Unwrap(got.frame).src)
                                = FirstAtTarget(decoder.media, decoder.pos, ts, lenient)
            ELSE /\ dec_last'.attempts >= 1
                 /\ got.kind = "Frame" =>
                        Some(Unwrap(got.frame).src)
                           = FirstAtTarget(decoder.media,
                                           SeekLanding(decoder.media, ts), ts, lenient)

ReachThreshold(d) == d.forward_threshold_ms
ReachThresholdOrTwoFrames(d) ==
    IF d.forward_threshold_ms > 2 * FrameDurationMs(d.media)
    THEN d.forward_threshold_ms ELSE 2 * FrameDurationMs(d.media)

C17_Step ==
    dec_last'.attempts > 0 =>
        /\ dec_last'.op \in {"seek", "decode_frame"}
        /\ dec_last'.attempts \in {1, 2}
        /\ dec_last'.attempts = 1 <=> dec_last'.seek1_ok
        /\ dec_last'.seek_ok <=> (dec_last'.seek1_ok \/ dec_last'.seek2_ok)
        /\ IF dec_last'.seek_ok
           THEN /\ dec_last'.op = "seek" => decoder'.state = "Ready"
                /\ dec_last'.op = "decode_frame" =>
                      /\ decoder'.state \in {"Ready", "EndOfStream"}
                      /\ decoder'.state = "EndOfStream" <=> IsSome(decoder'.eof_timestamp_ms)
           ELSE /\ decoder'.state = "Error"
                /\ dec_last'.op = "decode_frame" =>
                      dec_last'.ret = IF IsSome(decoder.last_decoded_frame)
                                      THEN [kind |-> "FrameSkipped", frame |-> None]
                                      ELSE [kind |-> "EndOfStreamEmpty", frame |-> None]

\* C17 (SpecDecoder): a seek that succeeds, at the first attempt or at the one
\* retry, leaves the decoder Ready whatever its state was; a seek whose two
\* attempts fail leaves it in Error; there is never a third attempt.  A
\* decode_frame whose seek failed returns FrameSkipped if a last frame exists
\* and EndOfStreamEmpty otherwise, not an error.
C17_SeekTransitions == [][C17_Step]_vars

\* a seek on a decoder that two failed attempts had left in Error succeeded
C17_Witness ==
    /\ dec_last.op = "seek"
    /\ dec_last.from = "Error"
    /\ dec_last.attempts = 1
    /\ dec_last.seek_ok
    /\ dec_faults = MaxDecoderFaults - 2
    /\ decoder.state = "Ready"

\* the clips placed on the video tracks
TimelineClips(tracks) ==
    UNION {{tracks[i].clips[j] : j \in 1..Len(tracks[i].clips)} : i \in 1..Len(tracks)}

ClipById(tracks, n) == CHOOSE c \in TimelineClips(tracks) : c.id = n

\* the last step was a render_frame of a scrubbing preview Renderer that found
\* one clip and no transition and decoded a new frame of it
FreshScrubFrame ==
    /\ r_last.op = "render"
    /\ ~r_last.busy
    /\ ~r_last.playback_mode
    /\ ~renderer.export_resolution
    /\ r_last.scene.transitions = << >>
    /\ r_last.via = "Frame"

\* what the clip of that render is asked: the path the preview decodes from
\* and the source time of the requested timeline time
ScrubPath == LET clip == ClipById(timeline, r_last.scene.clips[1].id)
             IN  IF IsSome(clip.proxy_path) THEN Unwrap(clip.proxy_path)
                 ELSE clip.file_path

ScrubSourceTime ==
    LET clip == ClipById(timeline, r_last.scene.clips[1].id)
    IN  clip.trim_start_ms
        + ((r_last.ts - clip.start_time_ms) * clip.speed_num) \div clip.speed_den

\* the one decoder request of that render and the cache entry it left
FreshRequestCached ==
    /\ Len(r_last.decoded) = 1
    /\ r_last.decoded[1].path = ScrubPath
    /\ r_last.decoded[1].source_time_ms = ScrubSourceTime
    /\ ScrubPath \in DOMAIN renderer.decoder_cache
    /\ CacheGetNoTouch(renderer.frame_cache, ScrubPath, ScrubSourceTime).ret = r_last.frame
    /\ Unwrap(r_last.frame).timestamp_ms = r_last.ts

\* the next step is the same render_frame again, with the Timeline free (a
\* step that leaves tl_held alone and ends with op = "render" is a render)
RepeatedScrub ==
    /\ FreshScrubFrame
    /\ r_last'.op = "render"
    /\ r_last'.ts = r_last.ts
    /\ ~r_last'.busy
    /\ tl_held' = tl_held

RepeatFromCache ==
    /\ r_last'.via = "cache_hit"
    /\ r_last'.decoded = << >>
    /\ renderer'.decoder_cache = renderer.decoder_cache
    /\ r_last'.frame = r_last.frame
    /\ Unwrap(r_last'.frame).timestamp_ms = r_last'.ts

C18_StepAsStated ==
    /\ (FreshScrubFrame' /\ tl_held' = tl_held) =>
         (FreshRequestCached' /\ r_last'.decoded[1].opens = 1)
    /\ RepeatedScrub => RepeatFromCache

C18_Step ==
    /\ (FreshScrubFrame' /\ tl_held' = tl_held) =>
         /\ FreshRequestCached'
         /\ LET d == r_last'.decoded[1]
                usable == /\ ScrubPath' \in DOMAIN renderer.decoder_cache
                          /\ renderer.decoder_cache[ScrubPath'].state # "Error"
            IN  /\ d.calls \in {1, 2}
                /\ d.opens = (IF usable THEN 0 ELSE 1) + (d.calls - 1)
    /\ RepeatedScrub => RepeatFromCache

FirstContentTrack(tracks, ts) ==
    LET with == {i \in 1..Len(tracks) :
                    /\ tracks[i].enabled
                    /\ \/ IsSome(GetTransitionAtTime(tracks[i], ts))
                       \/ IsSome(GetClipAtTime(tracks[i], ts))}
    IN  IF with = {} THEN 0 ELSE CHOOSE i \in with : \A j \in with : i <= j

\* C19 (SpecCompose): what render_frame composes at t is decided by the first
\* enabled track with content at t: its transition alone if two of its clips
\* overlap (the walk stops there), otherwise its active clip alone; nothing on
\* a later track, a transition included, takes the place of that clip.
C19_FirstTrackDecides ==
    (r_last.op = "render" /\ ~r_last.busy) =>
        LET ts == r_last.ts
            i  == FirstContentTrack(timeline, ts)
        IN  IF i = 0
            THEN r_last.scene = [clips |-> << >>, transitions |-> << >>]
            ELSE LET info == GetTransitionAtTime(timeline[i], ts)
                     clip == Unwrap(GetClipAtTime(timeline[i], ts))
                 IN  IF IsSome(info)
                     THEN r_last.scene =
                              [clips |-> << >>,
                               transitions |-> <<SceneTransition(renderer, Unwrap(info), ts)>>]
                     ELSE /\ r_last.scene =
                                [clips |-> <<SceneClip(renderer, clip,
                                                       TimelineToSourceTime(clip, ts))>>,
                                 transitions |-> << >>]
                          /\ r_last.via # "transition"

C20_Step ==
    /\ (~prefill_done /\ prefill_done') =>
          \/ a_cancelled
          \/ /\ afill.prefilled = PREFILL_CHUNKS
             /\ afill.pushed = [k \in 1..PREFILL_CHUNKS |->
                                   afill.start_time_ms + (k - 1) * DECODE_CHUNK_MS]
             /\ afill.current_time_ms = afill.start_time_ms + PREFILL_CHUNKS * DECODE_CHUNK_MS
             /\ ring.tail = PREFILL_CHUNKS * ChunkSamples
    /\ (afill.pc = "p1_tl" /\ afill'.pc = "p1_check") =>
          /\ afill'.prefilled = afill.prefilled
          /\ afill'.current_time_ms = afill.current_time_ms
          /\ afill'.pushed = afill.pushed
          /\ ring' = ring
    /\ (acaller = "wait_prefill" /\ acaller' # "wait_prefill") =>
          /\ acaller' = "running"
          /\ prefill_done \/ a_waited > PREFILL_WAIT_MS
    /\ a_waited' <= PREFILL_WAIT_MS + WAIT_POLL_MS

\* C20 (FairSpecAudio): prefill_done is set only when the fill thread has
\* mixed and pushed exactly 3 chunks of 100 ms, those of [start_ms, start_ms +
\* 300) in order, or has seen the cancel flag; a Timeline try_lock that fails
\* during the prefill moves neither the prefill counter nor the timeline
\* position; start() leaves its wait only for the stream, with prefill_done
\* set or more than 500 ms waited, never waits longer than 500 ms and one
\* sleep of 2 ms, and does leave it.
C20_Prefill == [][C20_Step]_vars /\ <>(acaller # "wait_prefill")

\* start() slept for some time, found prefill_done set by a fill thread that
\* was never cancelled and had pushed the three chunks, and started the stream
C20_Witness ==
    /\ a_last.op = "start_stream"
    /\ a_last.n > 0
    /\ a_last.n <= PREFILL_WAIT_MS
    /\ acaller = "running"
    /\ prefill_done
    /\ ~a_cancelled
    /\ afill.prefilled = PREFILL_CHUNKS
    /\ Len(afill.pushed) >= PREFILL_CHUNKS

InitExport == ExportInit /\ EngineParked /\ AudioDecoderParked /\ MutexParked /\ EffectsParked
ExportOthers == UNCHANGED <<engineVars, adec, mx, fx>>
ExportThread == ExportBegin \/ ExportCheck \/ ExportFrameStep \/ ExportStoreFinished
NextExport ==
    \/ ExportBegin /\ ExportOthers
    \/ ExportCheck /\ ExportOthers
    \/ ExportFrameStep /\ ExportOthers
    \/ ExportStoreFinished /\ ExportOthers
    \/ ExportCancel /\ ExportOthers
SpecExport == InitExport /\ [][NextExport]_vars

\* the scheduler runs the export thread
FairSpecExport == SpecExport /\ WF_vars(ExportThread /\ ExportOthers)

InitAudioDecoder == AudioDecoderInit /\ EngineParked /\ ExportParked /\ MutexParked
                    /\ EffectsParked
AudioDecoderOthers == UNCHANGED <<engineVars, xjob, mx, fx>>
NextAudioDecoder ==
    \/ DecodeRangeFirst /\ AudioDecoderOthers
    \/ DecodeRangeNext /\ AudioDecoderOthers
SpecAudioDecoder == InitAudioDecoder /\ [][NextAudioDecoder]_vars

InitMutex == MutexInit /\ EngineParked /\ ExportParked /\ AudioDecoderParked /\ EffectsParked
MutexOthers == UNCHANGED <<engineVars, xjob, adec, fx>>
NextMutex ==
    \/ HolderPanics /\ MutexOthers
    \/ TimelineAddVideoTrack /\ MutexOthers
    \/ TimelineGetVideoTrackCount /\ MutexOthers
    \/ PlaybackEngineStart /\ MutexOthers
    \/ FillLoopChecksQueue /\ MutexOthers
    \/ PlaybackEngineStop /\ MutexOthers
    \/ PlaybackEngineTryGetFrame /\ MutexOthers
    \/ RendererRenderFrame /\ MutexOthers
    \/ AudioCallbackLocks /\ MutexOthers
SpecMutex == InitMutex /\ [][NextMutex]_vars

InitEffects == EffectsInit /\ EngineParked /\ ExportParked /\ AudioDecoderParked /\ MutexParked
EffectsOthers == UNCHANGED <<engineVars, xjob, adec, mx>>
NextEffects ==
    \/ FxRenderBegin /\ EffectsOthers
    \/ FxRenderEnd /\ EffectsOthers
    \/ RendererSetClipEffects /\ EffectsOthers
SpecEffects == InitEffects /\ [][NextEffects]_vars

\* stop() has joined the fill thread
AStopJoined == acaller \in {"stop_lock", "stop_clear", "stopped"}

C21_Step ==
    \* the loop head of either phase, with the cancel flag set, ends the thread
    /\ (a_cancelled /\ afill.pc \in {"p1_check", "p2_check"} /\ afill' # afill)
          => afill'.pc = "done"
    \* a lock that is busy sends the thread back to the loop head
    /\ (afill.pc \in {"p1_tl", "p2_tl", "p2_try"} /\ afill' # afill
           /\ afill'.chunks = afill.chunks /\ afill'.pc # "p2_len")
          => afill'.pc \in {"p1_check", "p2_check"}
    \* once cancelled, the thread starts no chunk after the loop head
    /\ (a_cancelled /\ afill'.chunks # afill.chunks) => afill.pc \in {"p1_tl", "p2_tl"}
    \* stop() goes on only when the thread has ended
    /\ AStopJoined' => afill'.pc = "done"
    \* nothing is pushed once the thread is joined
    /\ AStopJoined => (ring'.tail = ring.tail /\ afill' = afill)
    \* stop() returned: the buffer is empty, and a callback gives zeros only
    /\ acaller' = "stopped" =>
          /\ a_cancelled' /\ RingLen(ring') = 0
          /\ a_last'.op = "callback" => (a_last'.zeros = a_last'.n /\ a_last'.copied = 0)
    /\ (acaller = "stop_playing" /\ acaller' # acaller) => ~is_playing'

\* C21 (FairSpecStop): stop() always completes and silences the output.  With
\* the cancel flag set the fill thread ends at the next loop head of either
\* phase, a busy Timeline or buffer lock sending it straight back there;
\* stop() joins the thread before it clears the buffer; once stop() has
\* returned the ring buffer is empty, nothing more is pushed, and every
\* callback outputs zeros only; a stop() that was called does return.
C21_StopCompletes == [][C21_Step]_vars /\ (a_cancelled ~> acaller = "stopped")

\* after stop() returned, with chunks pushed before it and the stream resumed,
\* a callback took the buffer lock and found nothing to copy
C21_Witness ==
    /\ acaller = "stopped"
    /\ afill.pc = "done"
    /\ Len(afill.pushed) > PREFILL_CHUNKS
    /\ a_last.op = "callback"
    /\ a_last.playing /\ a_last.got_lock
    /\ a_last.n > 0
    /\ a_last.zeros = a_last.n

\* the indices i of the frames an export is to send: i * (1000 / fps) < duration_ms
ExpectedFrames(duration_ms, fps) ==
    {i \in 0..duration_ms : i * 1000 < duration_ms * fps}

\* C22 (SpecExport): an export that was not cancelled and met no failure of
\* its environment, of a timeline of duration_ms > 0 at a configuration the
\* encoder opens with, has rendered one frame for each i with
\* i * (1000 / fps) < duration_ms in increasing i, has sent them to the
\* encoder with the PTS 0, 1, 2, ..., has written the trailer, and reports
\* no error and progress 100.
C22_EveryFrameSent ==
    (/\ xjob.pc = "done" /\ xjob.finished
     /\ ~xjob.cancelled /\ xjob.faults = 0
     /\ xjob.duration_ms > 0 /\ EncoderOpens(xjob.config)) =>
        LET n == Cardinality(ExpectedFrames(xjob.duration_ms, xjob.config.fps))
            e == Unwrap(xjob.encoder)
        IN  /\ xjob.error = None
            /\ xjob.progress = 100
            /\ e.sent = [k \in 1..n |-> k - 1]
            /\ e.trailer
            /\ Len(xjob.rendered) = n
            /\ \A k \in 1..n :
                  xjob.rendered[k].ts = ExportTimestampMs(k - 1, xjob.config.fps)

C23_Step ==
    /\ xjob'.progress >= xjob.progress
    /\ xjob'.pc \notin {"store_finished", "done"} => xjob'.progress <= 99
    /\ xjob'.progress = 100 =>
          /\ xjob'.pc \in {"store_finished", "done"} /\ xjob'.error = None
          /\ Unwrap(xjob'.encoder).finish_calls = 1
          /\ Unwrap(xjob'.encoder).trailer
    /\ IsSome(xjob'.error) => xjob'.progress <= 99
    /\ (xjob.pc = "check" /\ xjob.cancelled /\ xjob'.pc = "store_finished") =>
          (xjob'.error = Some("cancelled") /\ xjob'.progress <= 99)

RenderedCancelled(j) == {k \in 1..Len(j.rendered) : j.rendered[k].cancelled}

\* cancel() was called while the frame loop was running
CancelledInLoop(j) == j.cancelled /\ j.cancel_pc \in {"check", "frame"}

C24_Step ==
    \* the flag is looked at where an iteration starts, and there it ends the job
    /\ (xjob.pc = "check" /\ xjob.cancelled /\ xjob'.pc # "check") =>
          /\ xjob'.pc = "store_finished"
          /\ xjob'.error = Some("cancelled")
          /\ Unwrap(xjob'.encoder).finish_calls = 1
          /\ xjob'.rendered = xjob.rendered
    \* the frame in progress is finished; when it fails the job ends with its
    \* failure and the encoder is left as it is
    /\ (xjob.pc = "frame" /\ xjob.cancelled /\ xjob'.pc # "frame") =>
          \/ xjob'.pc = "check"
          \/ /\ xjob'.pc = "store_finished"
             /\ xjob'.error \in {Some("render"), Some("dimensions_mismatch"),
                                 Some("invalid_data_size"), Some("send_frame")}
             /\ Unwrap(xjob'.encoder).finish_calls = 0
    /\ Cardinality(RenderedCancelled(xjob')) <= 1
    /\ (xjob'.pc \in {"store_finished", "done"} /\ CancelledInLoop(xjob')) =>
          (IsSome(xjob'.error) /\ xjob'.progress <= 99)

InvalidExport(j) ==
    \/ j.duration_ms <= 0
    \/ j.config.fps <= 0
    \/ j.config.width = 0 \/ j.config.height = 0

C25_Rejected ==
    InvalidExport(xjob) =>
        /\ xjob.pc \in {"begin", "store_finished", "done"}
        /\ xjob.rendered = << >>
        /\ IsSome(xjob.encoder) => Unwrap(xjob.encoder).frame_count = 0
        /\ xjob.progress = 0
        /\ xjob.pc \in {"store_finished", "done"} =>
              /\ xjob.error \in {Some("timeline_lock"), Some("timeline_empty"),
                                 Some("encoder_new")}
              /\ (xjob.faults = 0 /\ xjob.duration_ms <= 0) => xjob.error = Some("timeline_empty")

AudioLaterCall == adec.last.op = "decode_range" /\ adec.last.i >= 1

\* C26: in a contiguous sequence of decode_range calls (33.333 ms video
\* frames, 100 ms playback chunks) no call after the first seeks or discards
\* the leftover buffer, every call returns floor(duration / 1000 * 48000) * 2
\* samples, and the samples left over by a call come first in the next one.
C26_NoSampleLost ==
    AudioLaterCall =>
        /\ ~adec.last.did_seek
        /\ adec.last.dropped = 0
        /\ adec.last.real + adec.last.pad = NumSamples(adec.dur)
        /\ (adec.last.before.to > adec.last.before.from
               => adec.last.first = adec.last.before.from)

\* the last operation went through a mutex whose holder had panicked
OnPoisonedMutex ==
    /\ mx.last.op \notin {"create", "panic"}
    /\ mx.last.mutexes \cap mx.poisoned # {}

\* C27: an operation on an engine mutex (Timeline, Renderer, PlaybackEngine,
\* FrameQueue, ring buffer) whose holder has panicked recovers the inner value
\* and carries on: playback is started and stopped, frames are rendered and
\* fetched, the timeline is read and edited.
C27_PoisonRecovered == OnPoisonedMutex => mx.last.done

\* what a step of fill thread s that starts in the retry loop does
RetryStep(s) ==
    LET t == threads[s]
        u == threads'[s]
        retry_ms == t.next_ms + 33 * t.retry_offset
        f == pe_last'.fill
    IN  /\ t.retry_offset \in 1..5
        /\ f.kind = "retry" /\ f.rendered_ms = retry_ms
        /\ IF IsSome(f.pushed)
           THEN /\ Unwrap(f.pushed).a # 0
                /\ frame_queue' = Push(frame_queue, Unwrap(f.pushed))
                /\ u.pc = "check" /\ u.next_ms = retry_ms + 33
           ELSE /\ frame_queue' = frame_queue
                /\ IF t.retry_offset < 5
                   THEN u.pc = "retry" /\ u.retry_offset = t.retry_offset + 1
                        /\ u.next_ms = t.next_ms
                   ELSE u.pc = "check" /\ u.next_ms = t.next_ms + 200

\* what a step of fill thread s that renders at the prefetch time does when
\* the frame is an artifact
ArtifactStep(s) ==
    LET f == pe_last'.fill
    IN  (threads'[s].pc = "retry")
          => /\ f.kind = "render" /\ f.rendered_ms = threads[s].next_ms
             /\ f.pushed = None /\ frame_queue' = frame_queue
             /\ threads'[s].retry_offset = 1 /\ threads'[s].next_ms = threads[s].next_ms

C28_Step ==
    \A s \in Sessions :
        /\ (threads[s].pc = "retry" /\ threads'[s] # threads[s]) => RetryStep(s)
        /\ (threads[s].pc = "render" /\ threads'[s] # threads[s]) => ArtifactStep(s)

\* C28: a frame rendered at prefetch time t that is an artifact (alpha 0x00)
\* is not pushed and is followed by retries at t + 33 k, k = 1..5 in order; the
\* first result that is no artifact is pushed and prefetch goes on at
\* t + 33 k + 33; after five failed retries nothing is pushed and prefetch
\* goes on at t + 200.
C28_RetryPolicy == [][C28_Step]_vars

\* a retry has just succeeded: its frame is the newest of the queue
C28_Witness ==
    /\ pe_last.fill.kind = "retry"
    /\ IsSome(pe_last.fill.pushed)
    /\ Len(frame_queue) > 0
    /\ frame_queue[Len(frame_queue)] = Unwrap(pe_last.fill.pushed)
    /\ threads[pe_last.fill.s].next_ms = pe_last.fill.rendered_ms + 33

\* the fill thread is in its steady-state loop
SteadyState == afill.pc \in {"p2_check", "p2_playing", "p2_try", "p2_len", "p2_tl",
                              "p2_lock", "p2_push"}

\* the chunks pushed so far cover consecutive 100 ms ranges from start_ms, the
\* first three of them pushed by the prefill, and the position is their end
ChunksConsecutive ==
    /\ \A i \in 1..Len(afill.pushed) : afill.pushed[i] = afill.start_time_ms + 100 * (i - 1)
    /\ afill.current_time_ms = afill.start_time_ms + 100 * Len(afill.pushed)
    /\ Len(afill.pushed) >= 3

\* a chunk is being mixed and pushed: the fill level is at most half the capacity
MixingBelowHalf ==
    afill.pc \in {"p2_tl", "p2_lock", "p2_push"} => 2 * RingLen(ring) <= 96000

C29_Inv == SteadyState => (ChunksConsecutive /\ MixingBelowHalf)

\* a step of the fill thread in its steady-state loop
C29_Step ==
    (SteadyState /\ afill' # afill) =>
        /\ (afill.pc = "p2_check") => afill'.pc \in {"p2_playing", "done"}
        /\ (afill.pc = "p2_playing") =>
              afill'.pc = (IF is_playing THEN "p2_try" ELSE "p2_check")
        /\ (afill.pc = "p2_try") =>
              afill'.pc = (IF buf_lock = "free" THEN "p2_len" ELSE "p2_check")
        /\ (afill.pc = "p2_len") =>
              afill'.pc = (IF 2 * RingLen(ring) <= 96000 THEN "p2_tl" ELSE "p2_check")
        /\ (afill.pc = "p2_tl") => afill'.pc \in {"p2_lock", "p2_check"}
        /\ (afill.pc = "p2_lock") => afill'.pc = "p2_push"
        /\ (afill.pc # "p2_push") =>
              /\ afill'.current_time_ms = afill.current_time_ms
              /\ afill'.pushed = afill.pushed
              /\ ring'.tail = ring.tail
        /\ (afill.pc = "p2_push") =>
              /\ afill'.pc = "p2_check"
              /\ afill'.pushed = Append(afill.pushed, afill.current_time_ms)
              /\ afill'.current_time_ms = afill.current_time_ms + 100
              /\ ring' = RingPush(ring, 9600)

\* C29: after prefill the fill thread mixes and pushes a chunk only in an
\* iteration that read is_playing as true, got the buffer by try_lock with a
\* fill level of at most half the capacity, and got the Timeline; the position
\* moves on by 100 ms with each chunk and not at all in a skipped iteration, so
\* the chunks cover consecutive 100 ms ranges from start_ms + 300.
C29_SteadyFill == []C29_Inv /\ [][C29_Step]_vars

\* two chunks of the steady state are pushed, the first from start_ms + 300
C29_Witness ==
    /\ afill.pc = "p2_check"
    /\ Len(afill.pushed) = 5
    /\ afill.pushed[4] = afill.start_time_ms + 300
    /\ afill.pushed[5] = afill.start_time_ms + 400

\* the step is a render_frame call (it leaves tl_held alone and ends with
\* op = "render")
RenderCall == r_last'.op = "render" /\ tl_held' = tl_held

\* before the call the decoder cached for the path was in Error state
ErrorAtStart(path) ==
    /\ path \in DOMAIN renderer.decoder_cache
    /\ renderer.decoder_cache[path].state = "Error"

\* before the call a decoder that is not in Error state was cached for the path
UsableAtStart(path) ==
    /\ path \in DOMAIN renderer.decoder_cache
    /\ renderer.decoder_cache[path].state # "Error"

\* the paths one render_frame call decodes from differ
DistinctPaths(decoded) ==
    \A i, j \in 1..Len(decoded) : decoded[i].path = decoded[j].path => i = j

\* the call gave the held frame, or a black one when none is held, and
\* returned Ok
HeldOrBlack ==
    /\ r_last'.ok
    /\ r_last'.frame = Some(LastOrBlack(renderer, r_last'.ts))
    /\ renderer'.last_rendered_frame = renderer.last_rendered_frame

C30_StepAsStated ==
    RenderCall =>
        /\ DistinctPaths(r_last'.decoded)
        /\ \A j \in 1..Len(r_last'.decoded) :
              LET d == r_last'.decoded[j]
              IN  /\ d.calls <= 2
                  /\ (IF ErrorAtStart(d.path) THEN 1 ELSE 0) + (d.calls - 1) <= 1
        /\ (r_last'.via = "Err") => HeldOrBlack

C30_Step ==
    RenderCall =>
        /\ DistinctPaths(r_last'.decoded)
        /\ \A j \in 1..Len(r_last'.decoded) :
              LET d == r_last'.decoded[j]
                  usable == UsableAtStart(d.path)
              IN  /\ d.calls \in 0..2
                  /\ (d.calls = 0) => (d.opens = 0 /\ ~usable)
                  /\ (d.calls = 1) => d.opens = (IF usable THEN 0 ELSE 1)
                  /\ (d.calls = 2) => d.opens = (IF usable THEN 1 ELSE 2)
        /\ (r_last'.via = "Err") => HeldOrBlack

C32_EffectsNotLost ==
    (fx.last.op = "render" /\ fx.last.frame.clip = fx.last.clip)
        => fx.last.frame.params = fx.last.wanted

\* C35: a frame served from the frame cache for a clip is the frame of the
\* clip's file at the requested source time with the clip's current effect
\* parameters applied, also when another clip uses the same file.
C35_CacheHitIsOwnFrame ==
    (fx.last.op = "render" /\ fx.last.via = "cache_hit")
        => /\ fx.last.frame.source_time_ms = fx.last.source_time_ms
           /\ \E c \in FxClips : c.id = fx.last.clip /\ c.file_path = fx.last.frame.file_path
           /\ fx.last.frame.params = fx.clip_effects[fx.last.clip]

\* a fill thread is running for a playback that has not been stopped
PlaybackRunning == fill_thread # None /\ ~cancelled

\* C33: after start(start_ms), with the fill thread scheduled fairly, the
\* frame queue eventually becomes non-empty (unless playback is stopped), at
\* every playhead position, also where the timeline has no active clip.
C33_EventuallyFrames == PlaybackRunning ~> (Len(frame_queue) > 0 \/ cancelled)

\* the frame the fill thread has just pushed is stamped with the prefetch time
\* it was rendered for
PushedAtPrefetchTime ==
    IsSome(pe_last.fill.pushed)
        => Unwrap(pe_last.fill.pushed).timestamp_ms = pe_last.fill.rendered_ms

\* the timestamps of the queue grow from the oldest to the newest frame
QueueIncreasing ==
    \A i \in 1..(Len(frame_queue) - 1) :
        frame_queue[i].timestamp_ms < frame_queue[i + 1].timestamp_ms

\* C34: every frame the fill thread pushes carries the prefetch timestamp it
\* was rendered for, whatever the renderer did (decode, cache hit, skipped
\* frame, empty end of stream, decode error, Timeline busy), so the timestamps
\* in the queue are strictly increasing.
C34_PushedTimestamps == PushedAtPrefetchTime /\ QueueIncreasing

\* C36: a start() that fails leaves nothing running: when the output stream
\* cannot be built or started after the fill thread was spawned, start
\* returns the error and the fill thread it spawned has been cancelled
C36_FailedStartCancels == acaller = "start_failed" => a_cancelled

\* the stored sample count is within the capacity
RingWithinCapacity == RingLen(ring) <= BUFFER_CAPACITY

\* a push appends one chunk and drains nothing (the drop-oldest branch is not
\* taken); samples leave at the front only, copied by the callback in the
\* order they were pushed, or cleared by stop()
C37_Step ==
    /\ ring'.tail # ring.tail =>
          /\ ring'.tail = ring.tail + ChunkSamples
          /\ ring'.head = ring.head
          /\ RingLen(ring) + ChunkSamples <= BUFFER_CAPACITY
    /\ ring'.head # ring.head =>
          \/ /\ a_last'.op = "callback"
             /\ a_last'.copied = ring'.head - ring.head
             /\ ring'.tail = ring.tail
          \/ acaller = "stop_clear" /\ acaller' = "stopped"

ExportOutcome(j) ==
    \/ j.progress = 100 /\ j.error = None
    \/ IsSome(j.error) /\ j.progress <= 99

\* the outcome is there when finished is raised, and a thread that has ended
\* has raised it
C38_Published ==
    /\ xjob.finished => ExportOutcome(xjob)
    /\ xjob.pc = "done" => xjob.finished

\* once finished is raised, the flag, the progress and the error stay
C38_Step ==
    xjob.finished =>
        /\ xjob'.finished
        /\ xjob'.progress = xjob.progress
        /\ xjob'.error = xjob.error

\* C38: the outcome of an export job is published before its finished flag:
\* whenever is_finished() is seen true, either the progress is 100 and there
\* is no error, or an error is set and the progress is at most 99, and
\* neither changes afterwards; and every export thread that ends sets
\* finished
C38_OutcomeBeforeFinished == []C38_Published /\ [][C38_Step]_vars /\ <>(xjob.pc = "done")

\* a finished job that failed in the frame loop; cancel() was called after
\* it had finished and changed nothing of the outcome
C38_Witness ==
    /\ xjob.finished
    /\ xjob.cancelled /\ xjob.cancel_pc = "done"
    /\ IsSome(xjob.error) /\ xjob.error # Some("cancelled")
    /\ xjob.progress <= 99

\* C39: muting a video track (set_track_muted) does not change which clip or
\* transition render_frame selects at any time, at single-clip positions and
\* at transition positions of the track alike
C39_MuteKeepsSelection ==
    [][r_last'.op = "set_track_muted" =>
          \A ts \in ComposeTimes :
              CollectScene(renderer', timeline', ts) = CollectScene(renderer, timeline, ts)]_vars

\* C40: after any sequence of decode_frame and seek calls a decoder in Ready
\* state has no cached EOF timestamp: every seek that succeeds, on the first
\* attempt or on the retry, clears the EOF cache
C40_ReadyHasNoEofCache == decoder.state = "Ready" => decoder.eof_timestamp_ms = None
====
